---- MODULE Spec2Model ----
(***************************************************************************)
(* Weinig tool inventory: the tool code scheme (core/tool_codes.py), the   *)
(* SQLite store (core/database.py) and the tool service                    *)
(* (services/tool_service.py) as one state machine.                        *)
(*                                                                         *)
(* Python strings that the code slices or concatenates (tool codes) are    *)
(* sequences of one-character strings; names that are only compared        *)
(* ("Bottom", "Profile") are TLA+ strings.                                 *)
(***************************************************************************)
EXTENDS Integers, Sequences, FiniteSets, TLC

VARIABLES
    profiles,       \* Profiles table: the set of stored profile IDs
    nextProfileId,  \* AUTOINCREMENT counter of Profiles
    tools,          \* Tools table: the set of stored rows
    nextToolId,     \* AUTOINCREMENT counter of Tools
    assignments,    \* Tool_Assignments table: the set of stored rows
    nextAssignId,   \* AUTOINCREMENT counter of Tool_Assignments
    read_only,      \* SecurityManager._read_only
    last,           \* the last service call: arguments, locals, outcome
    txn,            \* the open transaction of an assign_tool_to_head call
    seen,           \* what the last get_tool_assignments call of a reader returned
    creating,       \* the create_tool call of each caller, between its steps
    deleting,       \* a delete_tool call between its statements
    updating,       \* an update_tool call between its statements
    backups,        \* the backup archives, the one written last at the end
    now,            \* the second the clock shows (datetime.now())
    genArgs,        \* arguments of a ToolCodeGenerator.generate call
    genOut,         \* its outcome
    decIn,          \* argument of a ToolCodeGenerator.decode call
    decOut,         \* its outcome
    genArgs2,       \* arguments of a second generate call, to compare with the first
    genOut2         \* its outcome

storeVars == <<profiles, nextProfileId, tools, nextToolId, assignments, nextAssignId>>
codecVars == <<genArgs, genOut, decIn, decOut, genArgs2, genOut2>>
vars == <<profiles, nextProfileId, tools, nextToolId, assignments, nextAssignId,
          read_only, last, genArgs, genOut, decIn, decOut, genArgs2, genOut2, txn, seen,
          creating, deleting, backups, updating, now>>

\* Python None / SQL NULL
NULL == "None"
\* b'' : a bytes object that is not None and is falsy
EMPTY == "b''"

(***************************************************************************)
(* core/tool_codes.py                                                      *)
(***************************************************************************)
\* A character outside printable ASCII is written by its code point, "U+0663";
\* tab, line feed, carriage return and form feed are "\t", "\n", "\r", "\f".
Digits == <<"0", "1", "2", "3", "4", "5", "6", "7", "8", "9">>
DigitChar(n) == Digits[n + 1]

\* the decimal digits of Unicode (str.isdecimal), which int() reads like
\* "0".."9": every script holds ten of them in the order of their values
DecimalDigits ==
    Digits \o
    <<"U+0660", "U+0661", "U+0662", "U+0663", "U+0664", "U+0665", "U+0666", "U+0667", "U+0668",
      "U+0669", "U+06F0", "U+06F1", "U+06F2", "U+06F3", "U+06F4", "U+06F5", "U+06F6", "U+06F7",
      "U+06F8", "U+06F9", "U+07C0", "U+07C1", "U+07C2", "U+07C3", "U+07C4", "U+07C5", "U+07C6",
      "U+07C7", "U+07C8", "U+07C9", "U+0966", "U+0967", "U+0968", "U+0969", "U+096A", "U+096B",
      "U+096C", "U+096D", "U+096E", "U+096F", "U+09E6", "U+09E7", "U+09E8", "U+09E9", "U+09EA",
      "U+09EB", "U+09EC", "U+09ED", "U+09EE", "U+09EF", "U+0A66", "U+0A67", "U+0A68", "U+0A69",
      "U+0A6A", "U+0A6B", "U+0A6C", "U+0A6D", "U+0A6E", "U+0A6F", "U+0AE6", "U+0AE7", "U+0AE8",
      "U+0AE9", "U+0AEA", "U+0AEB", "U+0AEC", "U+0AED", "U+0AEE", "U+0AEF", "U+0B66", "U+0B67",
      "U+0B68", "U+0B69", "U+0B6A", "U+0B6B", "U+0B6C", "U+0B6D", "U+0B6E", "U+0B6F", "U+0BE6",
      "U+0BE7", "U+0BE8", "U+0BE9", "U+0BEA", "U+0BEB", "U+0BEC", "U+0BED", "U+0BEE", "U+0BEF",
      "U+0C66", "U+0C67", "U+0C68", "U+0C69", "U+0C6A", "U+0C6B", "U+0C6C", "U+0C6D", "U+0C6E",
      "U+0C6F", "U+0CE6", "U+0CE7", "U+0CE8", "U+0CE9", "U+0CEA", "U+0CEB", "U+0CEC", "U+0CED",
      "U+0CEE", "U+0CEF", "U+0D66", "U+0D67", "U+0D68", "U+0D69", "U+0D6A", "U+0D6B", "U+0D6C",
      "U+0D6D", "U+0D6E", "U+0D6F", "U+0DE6", "U+0DE7", "U+0DE8", "U+0DE9", "U+0DEA", "U+0DEB",
      "U+0DEC", "U+0DED", "U+0DEE", "U+0DEF", "U+0E50", "U+0E51", "U+0E52", "U+0E53", "U+0E54",
      "U+0E55", "U+0E56", "U+0E57", "U+0E58", "U+0E59", "U+0ED0", "U+0ED1", "U+0ED2", "U+0ED3",
      "U+0ED4", "U+0ED5", "U+0ED6", "U+0ED7", "U+0ED8", "U+0ED9", "U+0F20", "U+0F21", "U+0F22",
      "U+0F23", "U+0F24", "U+0F25", "U+0F26", "U+0F27", "U+0F28", "U+0F29", "U+1040", "U+1041",
      "U+1042", "U+1043", "U+1044", "U+1045", "U+1046", "U+1047", "U+1048", "U+1049", "U+1090",
      "U+1091", "U+1092", "U+1093", "U+1094", "U+1095", "U+1096", "U+1097", "U+1098", "U+1099",
      "U+17E0", "U+17E1", "U+17E2", "U+17E3", "U+17E4", "U+17E5", "U+17E6", "U+17E7", "U+17E8",
      "U+17E9", "U+1810", "U+1811", "U+1812", "U+1813", "U+1814", "U+1815", "U+1816", "U+1817",
      "U+1818", "U+1819", "U+1946", "U+1947", "U+1948", "U+1949", "U+194A", "U+194B", "U+194C",
      "U+194D", "U+194E", "U+194F", "U+19D0", "U+19D1", "U+19D2", "U+19D3", "U+19D4", "U+19D5",
      "U+19D6", "U+19D7", "U+19D8", "U+19D9", "U+1A80", "U+1A81", "U+1A82", "U+1A83", "U+1A84",
      "U+1A85", "U+1A86", "U+1A87", "U+1A88", "U+1A89", "U+1A90", "U+1A91", "U+1A92", "U+1A93",
      "U+1A94", "U+1A95", "U+1A96", "U+1A97", "U+1A98", "U+1A99", "U+1B50", "U+1B51", "U+1B52",
      "U+1B53", "U+1B54", "U+1B55", "U+1B56", "U+1B57", "U+1B58", "U+1B59", "U+1BB0", "U+1BB1",
      "U+1BB2", "U+1BB3", "U+1BB4", "U+1BB5", "U+1BB6", "U+1BB7", "U+1BB8", "U+1BB9", "U+1C40",
      "U+1C41", "U+1C42", "U+1C43", "U+1C44", "U+1C45", "U+1C46", "U+1C47", "U+1C48", "U+1C49",
      "U+1C50", "U+1C51", "U+1C52", "U+1C53", "U+1C54", "U+1C55", "U+1C56", "U+1C57", "U+1C58",
      "U+1C59", "U+A620", "U+A621", "U+A622", "U+A623", "U+A624", "U+A625", "U+A626", "U+A627",
      "U+A628", "U+A629", "U+A8D0", "U+A8D1", "U+A8D2", "U+A8D3", "U+A8D4", "U+A8D5", "U+A8D6",
      "U+A8D7", "U+A8D8", "U+A8D9", "U+A900", "U+A901", "U+A902", "U+A903", "U+A904", "U+A905",
      "U+A906", "U+A907", "U+A908", "U+A909", "U+A9D0", "U+A9D1", "U+A9D2", "U+A9D3", "U+A9D4",
      "U+A9D5", "U+A9D6", "U+A9D7", "U+A9D8", "U+A9D9", "U+A9F0", "U+A9F1", "U+A9F2", "U+A9F3",
      "U+A9F4", "U+A9F5", "U+A9F6", "U+A9F7", "U+A9F8", "U+A9F9", "U+AA50", "U+AA51", "U+AA52",
      "U+AA53", "U+AA54", "U+AA55", "U+AA56", "U+AA57", "U+AA58", "U+AA59", "U+ABF0", "U+ABF1",
      "U+ABF2", "U+ABF3", "U+ABF4", "U+ABF5", "U+ABF6", "U+ABF7", "U+ABF8", "U+ABF9", "U+FF10",
      "U+FF11", "U+FF12", "U+FF13", "U+FF14", "U+FF15", "U+FF16", "U+FF17", "U+FF18", "U+FF19",
      "U+104A0", "U+104A1", "U+104A2", "U+104A3", "U+104A4", "U+104A5", "U+104A6", "U+104A7",
      "U+104A8", "U+104A9", "U+10D30", "U+10D31", "U+10D32", "U+10D33", "U+10D34", "U+10D35",
      "U+10D36", "U+10D37", "U+10D38", "U+10D39", "U+11066", "U+11067", "U+11068", "U+11069",
      "U+1106A", "U+1106B", "U+1106C", "U+1106D", "U+1106E", "U+1106F", "U+110F0", "U+110F1",
      "U+110F2", "U+110F3", "U+110F4", "U+110F5", "U+110F6", "U+110F7", "U+110F8", "U+110F9",
      "U+11136", "U+11137", "U+11138", "U+11139", "U+1113A", "U+1113B", "U+1113C", "U+1113D",
      "U+1113E", "U+1113F", "U+111D0", "U+111D1", "U+111D2", "U+111D3", "U+111D4", "U+111D5",
      "U+111D6", "U+111D7", "U+111D8", "U+111D9", "U+112F0", "U+112F1", "U+112F2", "U+112F3",
      "U+112F4", "U+112F5", "U+112F6", "U+112F7", "U+112F8", "U+112F9", "U+11450", "U+11451",
      "U+11452", "U+11453", "U+11454", "U+11455", "U+11456", "U+11457", "U+11458", "U+11459",
      "U+114D0", "U+114D1", "U+114D2", "U+114D3", "U+114D4", "U+114D5", "U+114D6", "U+114D7",
      "U+114D8", "U+114D9", "U+11650", "U+11651", "U+11652", "U+11653", "U+11654", "U+11655",
      "U+11656", "U+11657", "U+11658", "U+11659", "U+116C0", "U+116C1", "U+116C2", "U+116C3",
      "U+116C4", "U+116C5", "U+116C6", "U+116C7", "U+116C8", "U+116C9", "U+11730", "U+11731",
      "U+11732", "U+11733", "U+11734", "U+11735", "U+11736", "U+11737", "U+11738", "U+11739",
      "U+118E0", "U+118E1", "U+118E2", "U+118E3", "U+118E4", "U+118E5", "U+118E6", "U+118E7",
      "U+118E8", "U+118E9", "U+11950", "U+11951", "U+11952", "U+11953", "U+11954", "U+11955",
      "U+11956", "U+11957", "U+11958", "U+11959", "U+11C50", "U+11C51", "U+11C52", "U+11C53",
      "U+11C54", "U+11C55", "U+11C56", "U+11C57", "U+11C58", "U+11C59", "U+11D50", "U+11D51",
      "U+11D52", "U+11D53", "U+11D54", "U+11D55", "U+11D56", "U+11D57", "U+11D58", "U+11D59",
      "U+11DA0", "U+11DA1", "U+11DA2", "U+11DA3", "U+11DA4", "U+11DA5", "U+11DA6", "U+11DA7",
      "U+11DA8", "U+11DA9", "U+16A60", "U+16A61", "U+16A62", "U+16A63", "U+16A64", "U+16A65",
      "U+16A66", "U+16A67", "U+16A68", "U+16A69", "U+16AC0", "U+16AC1", "U+16AC2", "U+16AC3",
      "U+16AC4", "U+16AC5", "U+16AC6", "U+16AC7", "U+16AC8", "U+16AC9", "U+16B50", "U+16B51",
      "U+16B52", "U+16B53", "U+16B54", "U+16B55", "U+16B56", "U+16B57", "U+16B58", "U+16B59",
      "U+1D7CE", "U+1D7CF", "U+1D7D0", "U+1D7D1", "U+1D7D2", "U+1D7D3", "U+1D7D4", "U+1D7D5",
      "U+1D7D6", "U+1D7D7", "U+1D7D8", "U+1D7D9", "U+1D7DA", "U+1D7DB", "U+1D7DC", "U+1D7DD",
      "U+1D7DE", "U+1D7DF", "U+1D7E0", "U+1D7E1", "U+1D7E2", "U+1D7E3", "U+1D7E4", "U+1D7E5",
      "U+1D7E6", "U+1D7E7", "U+1D7E8", "U+1D7E9", "U+1D7EA", "U+1D7EB", "U+1D7EC", "U+1D7ED",
      "U+1D7EE", "U+1D7EF", "U+1D7F0", "U+1D7F1", "U+1D7F2", "U+1D7F3", "U+1D7F4", "U+1D7F5",
      "U+1D7F6", "U+1D7F7", "U+1D7F8", "U+1D7F9", "U+1D7FA", "U+1D7FB", "U+1D7FC", "U+1D7FD",
      "U+1D7FE", "U+1D7FF", "U+1E140", "U+1E141", "U+1E142", "U+1E143", "U+1E144", "U+1E145",
      "U+1E146", "U+1E147", "U+1E148", "U+1E149", "U+1E2F0", "U+1E2F1", "U+1E2F2", "U+1E2F3",
      "U+1E2F4", "U+1E2F5", "U+1E2F6", "U+1E2F7", "U+1E2F8", "U+1E2F9", "U+1E950", "U+1E951",
      "U+1E952", "U+1E953", "U+1E954", "U+1E955", "U+1E956", "U+1E957", "U+1E958", "U+1E959",
      "U+1FBF0", "U+1FBF1", "U+1FBF2", "U+1FBF3", "U+1FBF4", "U+1FBF5", "U+1FBF6", "U+1FBF7",
      "U+1FBF8", "U+1FBF9">>

\* the characters int() takes for a digit, and the value of each
DigitSet == {DecimalDigits[i] : i \in DOMAIN DecimalDigits}
DigitVal(c) == ((CHOOSE i \in DOMAIN DecimalDigits : DecimalDigits[i] = c) - 1) % 10

\* the characters str.isdigit() accepts and int() does not: superscripts,
\* circled digits and the like
OtherDigits ==
    {"U+00B2", "U+00B3", "U+00B9", "U+1369", "U+136A", "U+136B", "U+136C", "U+136D", "U+136E",
     "U+136F", "U+1370", "U+1371", "U+19DA", "U+2070", "U+2074", "U+2075", "U+2076", "U+2077",
     "U+2078", "U+2079", "U+2080", "U+2081", "U+2082", "U+2083", "U+2084", "U+2085", "U+2086",
     "U+2087", "U+2088", "U+2089", "U+2460", "U+2461", "U+2462", "U+2463", "U+2464", "U+2465",
     "U+2466", "U+2467", "U+2468", "U+2474", "U+2475", "U+2476", "U+2477", "U+2478", "U+2479",
     "U+247A", "U+247B", "U+247C", "U+2488", "U+2489", "U+248A", "U+248B", "U+248C", "U+248D",
     "U+248E", "U+248F", "U+2490", "U+24EA", "U+24F5", "U+24F6", "U+24F7", "U+24F8", "U+24F9",
     "U+24FA", "U+24FB", "U+24FC", "U+24FD", "U+24FF", "U+2776", "U+2777", "U+2778", "U+2779",
     "U+277A", "U+277B", "U+277C", "U+277D", "U+277E", "U+2780", "U+2781", "U+2782", "U+2783",
     "U+2784", "U+2785", "U+2786", "U+2787", "U+2788", "U+278A", "U+278B", "U+278C", "U+278D",
     "U+278E", "U+278F", "U+2790", "U+2791", "U+2792", "U+10A40", "U+10A41", "U+10A42", "U+10A43",
     "U+10E60", "U+10E61", "U+10E62", "U+10E63", "U+10E64", "U+10E65", "U+10E66", "U+10E67",
     "U+10E68", "U+11052", "U+11053", "U+11054", "U+11055", "U+11056", "U+11057", "U+11058",
     "U+11059", "U+1105A", "U+1F100", "U+1F101", "U+1F102", "U+1F103", "U+1F104", "U+1F105",
     "U+1F106", "U+1F107", "U+1F108", "U+1F109", "U+1F10A"}

\* the characters int() skips at both ends of its argument
Blanks ==
    {"\t", "\n", "U+000B", "\f", "\r", " ", "U+0085", "U+00A0", "U+1680", "U+2000", "U+2001",
     "U+2002", "U+2003", "U+2004", "U+2005", "U+2006", "U+2007", "U+2008", "U+2009", "U+200A",
     "U+2028", "U+2029", "U+202F", "U+205F", "U+3000"}

\* the characters of the string constants the code concatenates
Chars(s) ==
    CASE s = "Bottom"   -> <<"B", "o", "t", "t", "o", "m">>
      [] s = "Top"      -> <<"T", "o", "p">>
      [] s = "Right"    -> <<"R", "i", "g", "h", "t">>
      [] s = "Left"     -> <<"L", "e", "f", "t">>
      [] s = "Straight" -> <<"S", "t", "r", "a", "i", "g", "h", "t">>
      [] s = "Profile"  -> <<"P", "r", "o", "f", "i", "l", "e">>
      [] OTHER          -> <<s>>

MinProfileId == 1
MaxProfileId == 999
MinSetNumber == 1
MaxSetNumber == 9
CodeLen == 6

\* the dict holds the names and the digits as keys, both ways
POSITION_MAP ==
    [Bottom |-> "1", Top |-> "2", Right |-> "3", Left |-> "4"] @@
    ("1" :> "Bottom" @@ "2" :> "Top" @@ "3" :> "Right" @@ "4" :> "Left")

\* TYPE_MAP with the two digits exchanged
TYPE_MAP_Swapped ==
    [Straight |-> "1", Profile |-> "0"] @@
    ("1" :> "Straight" @@ "0" :> "Profile")

TYPE_MAP ==
    [Straight |-> "0", Profile |-> "1"] @@
    ("0" :> "Straight" @@ "1" :> "Profile")

\* dict.get(key, key): the key itself where the default belongs
DictGet_KeyAsDefault(d, k, default) == IF k \in DOMAIN d THEN d[k] ELSE k

\* dict.get(key, default)
DictGet(d, k, default) == IF k \in DOMAIN d THEN d[k] ELSE default

\* f"{profile_id}": the padding left out
Format03d_NoPad(n) ==
    IF n < 10 THEN <<DigitChar(n)>>
    ELSE IF n < 100 THEN <<DigitChar(n \div 10), DigitChar(n % 10)>>
    ELSE <<DigitChar(n \div 100), DigitChar((n \div 10) % 10), DigitChar(n % 10)>>

\* f"{profile_id:03d}" for the ids that pass the range check
Format03d(n) == <<DigitChar(n \div 100), DigitChar((n \div 10) % 10), DigitChar(n % 10)>>

\* str(set_number) that gives "1" for every set number
StrDigit_One(n) == <<"1">>

\* str(set_number) for the set numbers that pass the range check
StrDigit(n) == <<DigitChar(n)>>

\* raise ValueError(f"{msg} {value}"), the offending value kept with its type
RaiseInt(msg, value) == [ok |-> FALSE, error |-> msg, int_value |-> value]
RaiseStr(msg, value) == [ok |-> FALSE, error |-> msg, str_value |-> value]
Return(code) == [ok |-> TRUE, code |-> code]

\* generate without the check of set_number
generate_NoSetCheck(profile_id, position, tool_type, set_number) ==
    IF ~(MinProfileId <= profile_id /\ profile_id <= MaxProfileId)
    THEN RaiseInt("Profile ID must be 1-999, got", profile_id)
    ELSE IF position \notin DOMAIN POSITION_MAP
    THEN RaiseStr("Invalid position:", position)
    ELSE IF tool_type \notin DOMAIN TYPE_MAP
    THEN RaiseStr("Invalid tool type:", tool_type)
    ELSE Return(Chars(POSITION_MAP[position]) \o Chars(TYPE_MAP[tool_type])
                \o Format03d(profile_id) \o StrDigit(set_number % 10))

generate(profile_id, position, tool_type, set_number) ==
    IF ~(MinProfileId <= profile_id /\ profile_id <= MaxProfileId)
    THEN RaiseInt("Profile ID must be 1-999, got", profile_id)
    ELSE IF position \notin DOMAIN POSITION_MAP
    THEN RaiseStr("Invalid position:", position)
    ELSE IF tool_type \notin DOMAIN TYPE_MAP
    THEN RaiseStr("Invalid tool type:", tool_type)
    ELSE IF ~(MinSetNumber <= set_number /\ set_number <= MaxSetNumber)
    THEN RaiseInt("Set number must be 1-9, got", set_number)
    ELSE Return(Chars(POSITION_MAP[position]) \o Chars(TYPE_MAP[tool_type])
                \o Format03d(profile_id) \o StrDigit(set_number))

\* int(s) of a Python string: surrounding blanks are stripped, one sign is
\* allowed, single underscores may separate digits; anything else raises
RECURSIVE LStrip(_)
LStrip(s) == IF s # <<>> /\ Head(s) \in Blanks THEN LStrip(Tail(s)) ELSE s
RECURSIVE RStrip(_)
RStrip(s) ==
    IF s # <<>> /\ s[Len(s)] \in Blanks THEN RStrip(SubSeq(s, 1, Len(s) - 1)) ELSE s
RECURSIVE DigitsValue(_)
DigitsValue(s) ==
    IF s = <<>> THEN 0
    ELSE IF s[Len(s)] = "_" THEN DigitsValue(SubSeq(s, 1, Len(s) - 1))
    ELSE 10 * DigitsValue(SubSeq(s, 1, Len(s) - 1)) + DigitVal(s[Len(s)])
IntBody(s) ==
    LET t == RStrip(LStrip(s))
    IN  IF t # <<>> /\ t[1] \in {"+", "-"} THEN Tail(t) ELSE t
\* int(s) does not raise
PyIntOk(s) ==
    LET b == IntBody(s)
    IN  /\ b # <<>>
        /\ b[1] \in DigitSet
        /\ b[Len(b)] \in DigitSet
        /\ \A i \in 1..Len(b) : b[i] \in DigitSet \cup {"_"}
        /\ \A i \in 1..(Len(b) - 1) : ~(b[i] = "_" /\ b[i + 1] = "_")
\* the value of int(s) when it does not raise
PyInt(s) ==
    LET t == RStrip(LStrip(s))
    IN  IF t[1] = "-" THEN 0 - DigitsValue(IntBody(s)) ELSE DigitsValue(IntBody(s))

\* decode(None): the argument that is not a string
NoneCode == <<NULL>>
\* the None result of decode
None == [none |-> TRUE]

decode(code) ==
    IF code = NoneCode \/ code = <<>> \/ Len(code) # CodeLen THEN None
    ELSE IF ~PyIntOk(SubSeq(code, 3, 5)) \/ ~PyIntOk(SubSeq(code, 6, 6)) THEN None
    ELSE [position   |-> DictGet(POSITION_MAP, code[1], "Bottom"),
          tool_type  |-> DictGet(TYPE_MAP, code[2], "Profile"),
          profile_id |-> PyInt(SubSeq(code, 3, 5)),
          set_number |-> PyInt(SubSeq(code, 6, 6))]

validate_code(code) == decode(code) # None

(***************************************************************************)
(* core/models.py, core/database.py                                        *)
(***************************************************************************)
\* Tool.to_dict(): the keys are the column names
to_dict(tool) ==
    [Profile_ID          |-> tool.profile_id,
     Position            |-> tool.position,
     Tool_Type           |-> tool.tool_type,
     Set_Number          |-> tool.set_number,
     Auto_Generated_Code |-> tool.code,
     Knives_Count        |-> tool.knives_count,
     Template_ID         |-> tool.template_id,
     Set_Status          |-> tool.status,
     Notes               |-> tool.notes,
     Photo               |-> tool.photo]

\* Python truth value of a bytes-or-None photo
Truthy(photo) == photo # NULL /\ photo # EMPTY

\* str.isdigit() on the code and the length test of add_tool
IsSixDigits(code) ==
    /\ Len(code) = CodeLen
    /\ \A i \in 1..Len(code) : code[i] \in DigitSet \cup OtherDigits

\* Auto_Generated_Code LIKE base || '%'
Like(code, base) == Len(code) >= Len(base) /\ SubSeq(code, 1, Len(base)) = base

\* code[:5]
BaseLen == 5
BaseCode(code) == SubSeq(code, 1, IF Len(code) < BaseLen THEN Len(code) ELSE BaseLen)

ToolById(id) == {t \in tools : t.ID = id}
ToolByCode(code) == {t \in tools : t.Auto_Generated_Code = code}

\* SELECT ID, Photo ... WHERE code LIKE base% AND Profile_ID = p ORDER BY ID LIMIT 1
FirstToolRows(base, profile_id) ==
    LET members == {t \in tools : Like(t.Auto_Generated_Code, base) /\ t.Profile_ID = profile_id}
    IN  {t \in members : \A u \in members : t.ID <= u.ID}

\* the row add_tool inserts
NewToolRow(tool_data) ==
    LET code  == tool_data.Auto_Generated_Code
        first == FirstToolRows(BaseCode(code), tool_data.Profile_ID)
        photo == IF first # {} /\ Truthy((CHOOSE t \in first : TRUE).Photo)
                 THEN (CHOOSE t \in first : TRUE).Photo
                 ELSE tool_data.Photo
    IN  [ID                  |-> nextToolId,
         Profile_ID          |-> tool_data.Profile_ID,
         Position            |-> tool_data.Position,
         Tool_Type           |-> tool_data.Tool_Type,
         Set_Number          |-> PyInt(SubSeq(code, CodeLen, CodeLen)),
         Auto_Generated_Code |-> code,
         Knives_Count        |-> tool_data.Knives_Count,
         Template_ID         |-> tool_data.Template_ID,
         Set_Status          |-> tool_data.Set_Status,
         Notes               |-> tool_data.Notes,
         Photo               |-> photo]

NoRaise == [raised |-> "", error |-> ""]

\* DatabaseManager.add_tool up to its INSERT: the SELECT of the profile and
\* the test of the code, with the exception raised (NoRaise when none is)
select_tool_raises(tool_data) ==
    IF tool_data.Profile_ID \notin profiles
    THEN [raised |-> "ValueError", error |-> "Profile with ID does not exist"]
    ELSE IF ~IsSixDigits(tool_data.Auto_Generated_Code)
    THEN [raised |-> "ValueError", error |-> "Auto_Generated_Code must be a 6-digit number"]
    ELSE NoRaise

\* the INSERT of add_tool on a Tools table without UNIQUE on Auto_Generated_Code
insert_tool_raises_NoUnique(tool_data) ==
    IF ~PyIntOk(SubSeq(tool_data.Auto_Generated_Code, CodeLen, CodeLen))
    THEN [raised |-> "ValueError", error |-> "invalid literal for int() with base 10"]
    ELSE IF tool_data.Profile_ID \notin profiles
    THEN [raised |-> "IntegrityError", error |-> "FOREIGN KEY constraint failed"]
    ELSE NoRaise

\* the INSERT of add_tool: int(auto_generated_code[5]) is evaluated for its
\* parameters, then the statement checks the constraints of the Tools table
insert_tool_raises(tool_data) ==
    IF ~PyIntOk(SubSeq(tool_data.Auto_Generated_Code, CodeLen, CodeLen))
    THEN [raised |-> "ValueError", error |-> "invalid literal for int() with base 10"]
    ELSE IF ToolByCode(tool_data.Auto_Generated_Code) # {}
    THEN [raised |-> "IntegrityError", error |-> "UNIQUE constraint failed"]
    ELSE IF tool_data.Profile_ID \notin profiles
    THEN [raised |-> "IntegrityError", error |-> "FOREIGN KEY constraint failed"]
    ELSE NoRaise

\* DatabaseManager.add_tool run with no other writer in between: the
\* exception it raises (NoRaise when it returns)
add_tool_raises(tool_data) ==
    IF select_tool_raises(tool_data) # NoRaise
    THEN select_tool_raises(tool_data)
    ELSE insert_tool_raises(tool_data)

\* the row the UPDATE statement of update_tool writes: every key of tool_data
\* but ID, Auto_Generated_Code and Photo, then Auto_Generated_Code
UpdatedToolRow(current, tool_data) ==
    [current EXCEPT
        !.Profile_ID          = tool_data.Profile_ID,
        !.Position            = tool_data.Position,
        !.Tool_Type           = tool_data.Tool_Type,
        !.Set_Number          = tool_data.Set_Number,
        !.Knives_Count        = tool_data.Knives_Count,
        !.Template_ID         = tool_data.Template_ID,
        !.Set_Status          = tool_data.Set_Status,
        !.Notes               = tool_data.Notes,
        !.Auto_Generated_Code = tool_data.Auto_Generated_Code]

\* the Tools table without UNIQUE on Auto_Generated_Code
UpdateViolates_NoUnique(tool_id, row) == row.Profile_ID \notin profiles

\* the constraints of the Tools table checked by the UPDATE statement
UpdateViolates(tool_id, row) ==
    \/ row.Profile_ID \notin profiles
    \/ \E t \in tools : t.ID # tool_id /\ t.Auto_Generated_Code = row.Auto_Generated_Code

\* update_tool that keeps the other columns of a refused UPDATE
update_tool_Partial(tool_id, tool_data) ==
    LET current == ToolById(tool_id)
        cur     == CHOOSE t \in current : TRUE
        row     == UpdatedToolRow(cur, tool_data)
        partial == [row EXCEPT !.Profile_ID = cur.Profile_ID,
                               !.Auto_Generated_Code = cur.Auto_Generated_Code]
    IN  IF current = {} THEN [tools |-> tools, success |-> FALSE, error |-> "not found"]
        ELSE IF UpdateViolates(tool_id, row)
        THEN [tools |-> (tools \ current) \cup {partial}, success |-> FALSE,
              error |-> "IntegrityError"]
        ELSE [tools |-> (tools \ current) \cup {row}, success |-> TRUE, error |-> ""]

\* DatabaseManager.update_tool: the table after the call and the returned value
update_tool(tool_id, tool_data) ==
    LET current == ToolById(tool_id)
        cur     == CHOOSE t \in current : TRUE
        row     == UpdatedToolRow(cur, tool_data)
    IN  IF current = {} THEN [tools |-> tools, success |-> FALSE, error |-> "not found"]
        ELSE IF UpdateViolates(tool_id, row)
        THEN [tools |-> tools, success |-> FALSE, error |-> "IntegrityError"]
        ELSE [tools |-> (tools \ current) \cup {row}, success |-> TRUE, error |-> ""]

\* DatabaseManager.update_tool from its UPDATE statement on, for a call whose
\* SELECT found the tool: an UPDATE that matches no row changes nothing and
\* the call returns True
update_rows(tool_id, tool_data) ==
    LET current == ToolById(tool_id)
        cur     == CHOOSE t \in current : TRUE
        row     == UpdatedToolRow(cur, tool_data)
    IN  IF current = {} THEN [tools |-> tools, success |-> TRUE, error |-> ""]
        ELSE IF UpdateViolates(tool_id, row)
        THEN [tools |-> tools, success |-> FALSE, error |-> "IntegrityError"]
        ELSE [tools |-> (tools \ current) \cup {row}, success |-> TRUE, error |-> ""]

\* DatabaseManager.delete_tool from its DELETE statement on, for a call
\* whose SELECT found the tool, with the ON DELETE CASCADE of Tool_Assignments
delete_rows(tool_id) ==
    [tools |-> tools \ ToolById(tool_id),
     assignments |-> {a \in assignments : a.Tool_ID # tool_id},
     success |-> TRUE]

\* delete_tool with DELETE ... WHERE Auto_Generated_Code LIKE base%
delete_tool_WholeSet(tool_id) ==
    LET gone == {t \in tools : \E d \in ToolById(tool_id) :
                    Like(t.Auto_Generated_Code, BaseCode(d.Auto_Generated_Code))}
    IN  IF ToolById(tool_id) = {}
        THEN [tools |-> tools, assignments |-> assignments, success |-> FALSE]
        ELSE [tools |-> tools \ gone,
              assignments |-> {a \in assignments : \A t \in gone : a.Tool_ID # t.ID},
              success |-> TRUE]

\* DatabaseManager.delete_tool with the ON DELETE CASCADE of Tool_Assignments
delete_tool(tool_id) ==
    IF ToolById(tool_id) = {}
    THEN [tools |-> tools, assignments |-> assignments, success |-> FALSE]
    ELSE [tools |-> tools \ ToolById(tool_id),
          assignments |-> {a \in assignments : a.Tool_ID # tool_id},
          success |-> TRUE]

MinHead == 1
MaxHead == 10

\* the constraints of Tool_Assignments without CHECK (Head_Number BETWEEN 1 AND 10)
InsertViolates_NoHeadCheck(profile_id, head_number, tool_id, kept) ==
    \/ profile_id \notin profiles
    \/ ToolById(tool_id) = {}
    \/ \E a \in kept : a.Profile_ID = profile_id /\ a.Head_Number = head_number

\* the constraints of Tool_Assignments with a check of the position of the
\* tool against the head (heads 1 and 8 to 10 take Bottom or Top tools in turn)
InsertViolates_PositionMatch(profile_id, head_number, tool_id, kept) ==
    \/ ~(MinHead <= head_number /\ head_number <= MaxHead)
    \/ profile_id \notin profiles
    \/ ToolById(tool_id) = {}
    \/ \E a \in kept : a.Profile_ID = profile_id /\ a.Head_Number = head_number
    \/ \E t \in ToolById(tool_id) :
          t.Position # (IF head_number \in {1, 8, 10} THEN "Bottom" ELSE "Top")

\* the constraints of Tool_Assignments with a UNIQUE(Tool_ID) that the
\* table does not have
InsertViolates_UniqueTool(profile_id, head_number, tool_id, kept) ==
    \/ ~(MinHead <= head_number /\ head_number <= MaxHead)
    \/ profile_id \notin profiles
    \/ ToolById(tool_id) = {}
    \/ \E a \in kept : a.Profile_ID = profile_id /\ a.Head_Number = head_number
    \/ \E a \in kept : a.Tool_ID = tool_id

\* the constraints of Tool_Assignments checked by the INSERT statement, after
\* the DELETE of the same transaction
InsertViolates(profile_id, head_number, tool_id, kept) ==
    \/ ~(MinHead <= head_number /\ head_number <= MaxHead)
    \/ profile_id \notin profiles
    \/ ToolById(tool_id) = {}
    \/ \E a \in kept : a.Profile_ID = profile_id /\ a.Head_Number = head_number

\* assign_tool_to_head without its DELETE, on a table without
\* UNIQUE(Profile_ID, Head_Number)
assign_tool_to_head_InsertOnly(profile_id, head_number, tool_id, params) ==
    LET row == [ID            |-> nextAssignId,
                Profile_ID    |-> profile_id,
                Tool_ID       |-> tool_id,
                Head_Number   |-> head_number,
                RPM           |-> params.rpm,
                Pass_Depth    |-> params.pass_depth,
                Work_Material |-> params.work_material,
                Remarks       |-> params.remarks]
    IN  IF InsertViolates(profile_id, head_number, tool_id, {})
        THEN [assignments |-> assignments, success |-> FALSE]
        ELSE [assignments |-> assignments \cup {row}, success |-> TRUE]

\* assign_tool_to_head with DELETE ... WHERE Profile_ID = ? only
assign_tool_to_head_DeleteAllHeads(profile_id, head_number, tool_id, params) ==
    LET kept == {a \in assignments : a.Profile_ID # profile_id}
        row  == [ID            |-> nextAssignId,
                 Profile_ID    |-> profile_id,
                 Tool_ID       |-> tool_id,
                 Head_Number   |-> head_number,
                 RPM           |-> params.rpm,
                 Pass_Depth    |-> params.pass_depth,
                 Work_Material |-> params.work_material,
                 Remarks       |-> params.remarks]
    IN  IF InsertViolates(profile_id, head_number, tool_id, kept)
        THEN [assignments |-> assignments, success |-> FALSE]
        ELSE [assignments |-> kept \cup {row}, success |-> TRUE]

\* assign_tool_to_head whose DELETE stays when the INSERT fails
assign_tool_to_head_NoRollback(profile_id, head_number, tool_id, params) ==
    LET kept == {a \in assignments :
                    ~(a.Profile_ID = profile_id /\ a.Head_Number = head_number)}
        row  == [ID            |-> nextAssignId,
                 Profile_ID    |-> profile_id,
                 Tool_ID       |-> tool_id,
                 Head_Number   |-> head_number,
                 RPM           |-> params.rpm,
                 Pass_Depth    |-> params.pass_depth,
                 Work_Material |-> params.work_material,
                 Remarks       |-> params.remarks]
    IN  IF InsertViolates(profile_id, head_number, tool_id, kept)
        THEN [assignments |-> kept, success |-> FALSE]
        ELSE [assignments |-> kept \cup {row}, success |-> TRUE]

\* DatabaseManager.assign_tool_to_head: DELETE, INSERT, commit; rollback on error
assign_tool_to_head(profile_id, head_number, tool_id, params) ==
    LET kept == {a \in assignments :
                    ~(a.Profile_ID = profile_id /\ a.Head_Number = head_number)}
        row  == [ID            |-> nextAssignId,
                 Profile_ID    |-> profile_id,
                 Tool_ID       |-> tool_id,
                 Head_Number   |-> head_number,
                 RPM           |-> params.rpm,
                 Pass_Depth    |-> params.pass_depth,
                 Work_Material |-> params.work_material,
                 Remarks       |-> params.remarks]
    IN  IF InsertViolates(profile_id, head_number, tool_id, kept)
        THEN [assignments |-> assignments, success |-> FALSE]
        ELSE [assignments |-> kept \cup {row}, success |-> TRUE]

\* no transaction is open
NoTxn == [open |-> FALSE]

\* the row of get_tool_assignments: ta.* and the code of the joined tool
AssignmentWithCode(a) ==
    LET t == CHOOSE u \in tools : u.ID = a.Tool_ID
    IN  [ID            |-> a.ID,
         Profile_ID    |-> a.Profile_ID,
         Tool_ID       |-> a.Tool_ID,
         Head_Number   |-> a.Head_Number,
         RPM           |-> a.RPM,
         Pass_Depth    |-> a.Pass_Depth,
         Work_Material |-> a.Work_Material,
         Remarks       |-> a.Remarks,
         Tool_Code     |-> t.Auto_Generated_Code]

\* the dict of head number -> row built from the rows of a SELECT ... JOIN
AssignmentsDict(rows, profile_id) ==
    LET joined == {a \in rows : a.Profile_ID = profile_id
                                /\ \E t \in tools : t.ID = a.Tool_ID}
        heads  == {a.Head_Number : a \in joined}
    IN  [h \in heads |->
            AssignmentWithCode(CHOOSE a \in joined :
                /\ a.Head_Number = h
                /\ \A b \in joined : b.Head_Number = h => b.ID <= a.ID)]

\* get_tool_assignments reading the uncommitted rows of the open transaction
get_tool_assignments_Dirty(profile_id) ==
    AssignmentsDict(IF txn.open THEN txn.rows ELSE assignments, profile_id)

\* DatabaseManager.get_tool_assignments on a connection of its own: it reads
\* the committed rows
get_tool_assignments(profile_id) ==
    AssignmentsDict(assignments, profile_id)

\* delete_profile without the ON DELETE CASCADE of the referencing tables
delete_profile_NoCascade(profile_id) ==
    [profiles    |-> profiles \ {profile_id},
     tools       |-> tools,
     assignments |-> assignments,
     success     |-> profile_id \in profiles]

\* DatabaseManager.delete_profile with the ON DELETE CASCADE of Tools and
\* Tool_Assignments
delete_profile(profile_id) ==
    LET gone == {t.ID : t \in {u \in tools : u.Profile_ID = profile_id}}
    IN  [profiles    |-> profiles \ {profile_id},
         tools       |-> {t \in tools : t.Profile_ID # profile_id},
         assignments |-> {a \in assignments :
                            a.Profile_ID # profile_id /\ a.Tool_ID \notin gone},
         success     |-> profile_id \in profiles]

\* the mapping with the positions of heads 5 and 6 exchanged
HeadPositionMapping_Swapped ==
    (1 :> "Bottom" @@ 2 :> "Top" @@ 3 :> "Right" @@ 4 :> "Left" @@ 5 :> "Left" @@
     6 :> "Right" @@ 7 :> "Top" @@ 8 :> "Bottom" @@ 9 :> "Top" @@ 10 :> "Bottom")

\* ToolService.get_head_position_mapping
HeadPositionMapping ==
    (1 :> "Bottom" @@ 2 :> "Top" @@ 3 :> "Right" @@ 4 :> "Left" @@ 5 :> "Right" @@
     6 :> "Left" @@ 7 :> "Top" @@ 8 :> "Bottom" @@ 9 :> "Top" @@ 10 :> "Bottom")

\* ToolService.get_required_position_for_head: mapping.get(head_number)
get_required_position_for_head(head_number) ==
    DictGet(HeadPositionMapping, head_number, NULL)

\* MainWindow.load_profile_tools: the tag of the row of each head of a profile
load_profile_tools(profile_id) ==
    LET asg == get_tool_assignments(profile_id)
    IN  [h \in MinHead..MaxHead |->
            IF h \notin DOMAIN asg THEN "empty"
            ELSE IF ToolById(asg[h].Tool_ID) = {} THEN "empty"
            ELSE LET tool == CHOOSE t \in ToolById(asg[h].Tool_ID) : TRUE
                 IN  IF tool.Position # DictGet(HeadPositionMapping, h, NULL)
                     THEN "warning" ELSE "assigned"]

(***************************************************************************)
(* Bounds of the model and the arguments the calls are made with           *)
(***************************************************************************)
MaxProfiles == 1
MaxTools == 2
MaxAssignments == 3
MaxBackups == 2
MaxNow == 1

\* the form as opened: the empty template and notes boxes give None
DefaultDetails == [knives_count |-> 6, template_id |-> NULL, status |-> "ready", notes |-> NULL]
EditedDetails  == [knives_count |-> 4, template_id |-> "T1", status |-> "worn", notes |-> "n"]

\* the Tool objects of ToolEditor.save, before the service sets the code
ToolOf(profile_id, position, tool_type, set_number, photo, details) ==
    [profile_id   |-> profile_id,
     position     |-> position,
     tool_type    |-> tool_type,
     set_number   |-> set_number,
     code         |-> <<>>,
     knives_count |-> details.knives_count,
     template_id  |-> details.template_id,
     status       |-> details.status,
     notes        |-> details.notes,
     photo        |-> photo]

\* the codes generate gives for the identities of a set of Tool objects
CodesOf(inputs) ==
    {generate(t.profile_id, t.position, t.tool_type, t.set_number).code :
        t \in {u \in inputs :
                  generate(u.profile_id, u.position, u.tool_type, u.set_number).ok}}

\* the code a Tool object passed to update_tool(tool_id, ...) can carry: the
\* code stored for the tool, no code, or a code the tool had when the object
\* was loaded, which is the code of any identity a call can give a tool
CarriedCodes(tool_id, known) ==
    {t.Auto_Generated_Code : t \in ToolById(tool_id)} \cup {<<>>} \cup CodesOf(known)

\* the Tool objects passed to update_tool(tool_id, ...): the fields of a
\* form with any of the codes; known holds the Tool objects the calls of
\* the specification pass
Carrying(tool_id, inputs, known) ==
    {[tool EXCEPT !.code = code] : tool \in inputs, code \in CarriedCodes(tool_id, known)}

PhotoInputs == {NULL, EMPTY, "P1"}

\* two tools of one set of profile 1
Identities ==
    {<<1, "Bottom", "Profile", 1>>, <<1, "Bottom", "Profile", 2>>}

\* every identity with every photo, and one tool with edited details
ToolInputs ==
    {ToolOf(i[1], i[2], i[3], i[4], ph, DefaultDetails) : i \in Identities, ph \in PhotoInputs}
    \cup {ToolOf(1, "Bottom", "Profile", 2, "P1", EditedDetails)}

\* tools whose identity is edited: two valid identities, a position given as
\* its digit, and a set number generate rejects
IdentityInputs ==
    {ToolOf(1, "Bottom", "Profile", 1, NULL, DefaultDetails),
     ToolOf(1, "Top", "Profile", 1, NULL, DefaultDetails),
     ToolOf(1, "1", "Profile", 1, NULL, DefaultDetails),
     ToolOf(1, "Bottom", "Profile", 0, NULL, EditedDetails)}

\* tools without photo: two of profile 1, one of profile 2, and one with a
\* set number generate rejects
PlainToolInputs ==
    {ToolOf(1, "Bottom", "Profile", 1, NULL, DefaultDetails),
     ToolOf(1, "Top", "Profile", 1, NULL, DefaultDetails),
     ToolOf(2, "Bottom", "Profile", 1, NULL, DefaultDetails),
     ToolOf(1, "Bottom", "Profile", 0, NULL, DefaultDetails)}

AssignParams ==
    {[rpm |-> 6000, pass_depth |-> 1, work_material |-> "oak", remarks |-> ""],
     [rpm |-> 8000, pass_depth |-> 2, work_material |-> "pine", remarks |-> "r"]}

\* (profile, head number) of the assignment calls: two heads of profile 1
\* and a head number out of range
HeadInputs == {<<1, 1>>, <<1, 2>>, <<1, MaxHead + 1>>}

(***************************************************************************)
(* services/tool_service.py, services/profile_service.py,                  *)
(* config/security.py: one action per call.  last keeps the arguments, the *)
(* locals and the outcome of the call: the exception it raised ("" when it *)
(* returned), the message raised or logged, the value returned and the     *)
(* observer notification sent.                                             *)
(***************************************************************************)
NoEvent == [type |-> "none"]

\* two callers of ToolService.create_tool on the same database file, each
\* with its own connections; Idle: no call under way
Callers == {1, 2}
Idle == [pc |-> "idle"]

PermissionError == "PermissionError"

\* ToolService.get_tool_by_code
get_tool_by_code(code) == ToolByCode(code)

\* ToolService.is_tool_assigned
is_tool_assigned(tool_id) == \E a \in assignments : a.Tool_ID = tool_id

\* ToolService.create_tool
CreateTool(tool) ==
    LET g    == generate(tool.profile_id, tool.position, tool.tool_type, tool.set_number)
        data == to_dict([tool EXCEPT !.code = g.code])
        add  == add_tool_raises(data)
        call == [op |-> "create_tool", tool |-> tool, tool_id |-> 0, code |-> <<>>,
                 raised |-> "", error |-> "", event |-> NoEvent]
    IN  /\ nextToolId <= MaxTools
        /\ UNCHANGED <<profiles, nextProfileId, assignments, nextAssignId, read_only,
                       genArgs, genOut, decIn, decOut, genArgs2, genOut2, txn, seen, creating, deleting, backups, updating, now>>
        /\ IF read_only
           THEN /\ last' = [call EXCEPT !.raised = PermissionError]
                /\ UNCHANGED <<tools, nextToolId>>
           ELSE IF ~g.ok
           THEN /\ last' = [call EXCEPT !.raised = "ValueError", !.error = g.error]
                /\ UNCHANGED <<tools, nextToolId>>
           ELSE IF get_tool_by_code(g.code) # {}
           THEN /\ last' = [call EXCEPT !.code = g.code, !.raised = "ValueError",
                                 !.error = "Tool with code already exist."]
                /\ UNCHANGED <<tools, nextToolId>>
           ELSE IF add # NoRaise
           THEN /\ last' = [call EXCEPT !.code = g.code, !.raised = "ValueError",
                                 !.error = IF add.raised = "ValueError" THEN add.error
                                           ELSE "An error occurred while creating the tool."]
                /\ UNCHANGED <<tools, nextToolId>>
           ELSE /\ tools' = tools \cup {NewToolRow(data)}
                /\ nextToolId' = nextToolId + 1
                /\ last' = [call EXCEPT
                       !.code = g.code,
                       !.tool_id = nextToolId,
                       !.event = [type |-> "tool_created", tool_id |-> nextToolId,
                                  code |-> g.code]]

\* ToolService.create_tool step by step, as another caller on its own
\* connection can interleave with it.  First step: the permission check,
\* generate and get_tool_by_code, a SELECT in a transaction of its own.  The
\* calls under way count against the bound on stored tools.
CreateToolCheck(c, tool) ==
    LET g      == generate(tool.profile_id, tool.position, tool.tool_type, tool.set_number)
        call   == [op |-> "create_tool", tool |-> tool, tool_id |-> 0, code |-> <<>>,
                   raised |-> "", error |-> "", event |-> NoEvent]
        under  == {d \in DOMAIN creating : creating[d].pc \in {"checked", "selected"}}
        Raised(r) == /\ creating' = [creating EXCEPT ![c] = [pc |-> "raised", call |-> r]]
                     /\ last' = r
    IN  /\ creating[c].pc \notin {"checked", "selected"}
        /\ nextToolId + Cardinality(under) <= MaxTools
        /\ UNCHANGED <<storeVars, read_only, codecVars, txn, seen, deleting, backups, updating, now>>
        /\ IF read_only
           THEN Raised([call EXCEPT !.raised = PermissionError])
           ELSE IF ~g.ok
           THEN Raised([call EXCEPT !.raised = "ValueError", !.error = g.error])
           ELSE IF get_tool_by_code(g.code) # {}
           THEN Raised([call EXCEPT !.code = g.code, !.raised = "ValueError",
                                    !.error = "Tool with code already exist."])
           ELSE /\ creating' = [creating EXCEPT
                       ![c] = [pc |-> "checked", call |-> [call EXCEPT !.code = g.code]]]
                /\ UNCHANGED last

\* second step: DatabaseManager.add_tool up to its INSERT, on a connection of
\* its own.  The SELECTs of the profile and of the first tool of the set run
\* before the INSERT opens the write transaction, so another writer can commit
\* after them; the photo they choose is put into tool_data.
CreateToolSelect(c) ==
    LET call == creating[c].call
        row  == to_dict([call.tool EXCEPT !.code = call.code])
        sel  == select_tool_raises(row)
        fail == [call EXCEPT !.raised = "ValueError", !.error = sel.error]
    IN  /\ creating[c].pc = "checked"
        /\ UNCHANGED <<storeVars, read_only, codecVars, txn, seen, deleting, backups, updating, now>>
        /\ IF sel # NoRaise
           THEN /\ creating' = [creating EXCEPT ![c] = [pc |-> "raised", call |-> fail]]
                /\ last' = fail
           ELSE /\ creating' = [creating EXCEPT
                       ![c] = [pc |-> "selected", call |-> call,
                               photo |-> NewToolRow(row).Photo]]
                /\ UNCHANGED last

\* third step: the INSERT and the commit.  SQLite lets one writer at a time
\* insert and commit, so the INSERT sees every row committed before it.  Then
\* the notification and the return, or ValueError.
CreateToolInsert(c) ==
    LET call == creating[c].call
        row  == to_dict([call.tool EXCEPT !.code = call.code])
        ins  == insert_tool_raises(row)
        done == IF ins # NoRaise
                THEN [call EXCEPT !.raised = "ValueError",
                                  !.error = IF ins.raised = "ValueError" THEN ins.error
                                            ELSE "An error occurred while creating the tool."]
                ELSE [call EXCEPT
                         !.tool_id = nextToolId,
                         !.event = [type |-> "tool_created", tool_id |-> nextToolId,
                                    code |-> call.code]]
    IN  /\ creating[c].pc = "selected"
        /\ creating' = [creating EXCEPT
               ![c] = [pc |-> IF ins # NoRaise THEN "raised" ELSE "returned", call |-> done]]
        /\ last' = done
        /\ IF ins # NoRaise
           THEN UNCHANGED <<tools, nextToolId>>
           ELSE /\ tools' = tools \cup {[NewToolRow(row) EXCEPT !.Photo = creating[c].photo]}
                /\ nextToolId' = nextToolId + 1
        /\ UNCHANGED <<profiles, nextProfileId, assignments, nextAssignId, read_only,
                       codecVars, txn, seen, deleting, backups, updating, now>>

\* ToolService.update_tool when no other call runs between its statements:
\* fields is the Tool object passed, which keeps its code unless a changed
\* identity has it generated
UpdateTool(tool_id, fields) ==
    LET original == ToolById(tool_id)
        orig     == CHOOSE t \in original : TRUE
        code_changed ==
            /\ original # {}
            /\ \/ orig.Profile_ID # fields.profile_id
               \/ orig.Position # fields.position
               \/ orig.Tool_Type # fields.tool_type
               \/ orig.Set_Number # fields.set_number
        g    == generate(fields.profile_id, fields.position, fields.tool_type,
                         fields.set_number)
        tool == [fields EXCEPT
                    !.code = IF ~read_only /\ code_changed /\ g.ok THEN g.code
                             ELSE fields.code]
        upd  == update_tool(tool_id, to_dict(tool))
        call == [op |-> "update_tool", tool_id |-> tool_id, tool |-> tool,
                 original |-> original, raised |-> "", error |-> "",
                 result |-> FALSE, event |-> NoEvent]
    IN  /\ UNCHANGED <<profiles, nextProfileId, nextToolId, assignments, nextAssignId,
                       read_only, genArgs, genOut, decIn, decOut, genArgs2, genOut2, txn, seen, creating, deleting, backups, updating, now>>
        /\ IF read_only
           THEN /\ last' = [call EXCEPT !.raised = PermissionError]
                /\ UNCHANGED tools
           ELSE IF code_changed /\ ~g.ok
           THEN /\ last' = [call EXCEPT !.error = g.error]
                /\ UNCHANGED tools
           ELSE /\ tools' = upd.tools
                /\ last' = [call EXCEPT
                       !.result = upd.success,
                       !.error = upd.error,
                       !.event = IF upd.success
                                 THEN [type |-> "tool_updated", tool_id |-> tool_id]
                                 ELSE NoEvent]

\* ToolService.update_tool step by step, as another caller on its own
\* connection can run between its statements.  First step: the permission
\* check, get_tool (a SELECT on a connection closed before going on) and the
\* code generated for a changed identity.
UpdateToolGet(tool_id, fields) ==
    LET original == ToolById(tool_id)
        orig     == CHOOSE t \in original : TRUE
        code_changed ==
            /\ original # {}
            /\ \/ orig.Profile_ID # fields.profile_id
               \/ orig.Position # fields.position
               \/ orig.Tool_Type # fields.tool_type
               \/ orig.Set_Number # fields.set_number
        g    == generate(fields.profile_id, fields.position, fields.tool_type,
                         fields.set_number)
        tool == [fields EXCEPT
                    !.code = IF ~read_only /\ code_changed /\ g.ok THEN g.code
                             ELSE fields.code]
        call == [op |-> "update_tool", tool_id |-> tool_id, tool |-> tool,
                 original |-> original, raised |-> "", error |-> "",
                 result |-> FALSE, event |-> NoEvent]
    IN  /\ updating.pc = "idle"
        /\ UNCHANGED <<storeVars, read_only, codecVars, txn, seen, creating, deleting,
                       backups, now>>
        /\ IF read_only
           THEN /\ last' = [call EXCEPT !.raised = PermissionError]
                /\ UNCHANGED updating
           ELSE IF code_changed /\ ~g.ok
           THEN /\ last' = [call EXCEPT !.error = g.error]
                /\ UNCHANGED updating
           ELSE /\ updating' = [pc |-> "got", call |-> call]
                /\ UNCHANGED last

\* second step: the SELECT of DatabaseManager.update_tool on a new
\* connection; the call returns False when the tool is not stored then
UpdateToolSelect ==
    /\ updating.pc = "got"
    /\ UNCHANGED <<storeVars, read_only, codecVars, txn, seen, creating, deleting,
                   backups, now>>
    /\ IF ToolById(updating.call.tool_id) = {}
       THEN /\ last' = [updating.call EXCEPT !.error = "not found"]
            /\ updating' = Idle
       ELSE /\ updating' = [updating EXCEPT !.pc = "selected"]
            /\ UNCHANGED last

\* third step: the UPDATE statement with the rows as they are then, the
\* commit, the notification and the return
UpdateToolUpdate ==
    LET call == updating.call
        upd  == update_rows(call.tool_id, to_dict(call.tool))
    IN  /\ updating.pc = "selected"
        /\ updating' = Idle
        /\ tools' = upd.tools
        /\ last' = [call EXCEPT
               !.result = upd.success,
               !.error = upd.error,
               !.event = IF upd.success
                         THEN [type |-> "tool_updated", tool_id |-> call.tool_id]
                         ELSE NoEvent]
        /\ UNCHANGED <<profiles, nextProfileId, nextToolId, assignments, nextAssignId,
                       read_only, codecVars, txn, seen, creating, deleting, backups, now>>

\* ToolService.delete_tool; deleted is the row of the tool before the call
DeleteTool(tool_id) ==
    LET del  == delete_tool(tool_id)
        call == [op |-> "delete_tool", tool_id |-> tool_id, deleted |-> ToolById(tool_id),
                 raised |-> "", error |-> "", result |-> FALSE, event |-> NoEvent]
    IN  /\ UNCHANGED <<profiles, nextProfileId, nextToolId, nextAssignId, read_only,
                       genArgs, genOut, decIn, decOut, genArgs2, genOut2, txn, seen, creating, deleting, backups, updating, now>>
        /\ IF read_only
           THEN /\ last' = [call EXCEPT !.raised = PermissionError]
                /\ UNCHANGED <<tools, assignments>>
           ELSE IF is_tool_assigned(tool_id)
           THEN /\ last' = [call EXCEPT
                       !.error = "Cannot delete tool: The tool is assigned to a head."]
                /\ UNCHANGED <<tools, assignments>>
           ELSE /\ tools' = del.tools
                /\ assignments' = del.assignments
                /\ last' = [call EXCEPT
                       !.result = del.success,
                       !.event = IF del.success
                                 THEN [type |-> "tool_deleted", tool_id |-> tool_id]
                                 ELSE NoEvent]

\* ToolService.delete_tool step by step, as another caller on its own
\* connection can interleave with it.  First step: the permission check and
\* is_tool_assigned, a SELECT on a connection that is closed before the DELETE.
DeleteToolCheck(tool_id) ==
    LET call == [op |-> "delete_tool", tool_id |-> tool_id, deleted |-> ToolById(tool_id),
                 raised |-> "", error |-> "", result |-> FALSE, event |-> NoEvent]
    IN  /\ deleting.pc = "idle"
        /\ UNCHANGED <<storeVars, read_only, codecVars, txn, seen, creating, backups, updating, now>>
        /\ IF read_only
           THEN /\ last' = [call EXCEPT !.raised = PermissionError]
                /\ UNCHANGED deleting
           ELSE IF is_tool_assigned(tool_id)
           THEN /\ last' = [call EXCEPT
                       !.error = "Cannot delete tool: The tool is assigned to a head."]
                /\ UNCHANGED deleting
           ELSE /\ deleting' = [pc |-> "checked", tool_id |-> tool_id]
                /\ UNCHANGED last

\* second step: the SELECT of DatabaseManager.delete_tool on a new
\* connection; the call returns False when the tool is not stored then
DeleteToolSelect ==
    LET tool_id == deleting.tool_id
    IN  /\ deleting.pc = "checked"
        /\ UNCHANGED <<storeVars, read_only, codecVars, txn, seen, creating, backups,
                       updating, now>>
        /\ IF ToolById(tool_id) = {}
           THEN /\ last' = [op |-> "delete_tool", tool_id |-> tool_id, deleted |-> {},
                            raised |-> "", error |-> "", result |-> FALSE,
                            event |-> NoEvent]
                /\ deleting' = Idle
           ELSE /\ deleting' = [deleting EXCEPT !.pc = "selected"]
                /\ UNCHANGED last

\* third step: the DELETE statement with the rows as they are then, the
\* commit, the notification and the return
DeleteToolDelete ==
    LET tool_id == deleting.tool_id
        del     == delete_rows(tool_id)
    IN  /\ deleting.pc = "selected"
        /\ deleting' = Idle
        /\ tools' = del.tools
        /\ assignments' = del.assignments
        /\ last' = [op |-> "delete_tool", tool_id |-> tool_id, deleted |-> ToolById(tool_id),
                    raised |-> "", error |-> "", result |-> del.success,
                    event |-> [type |-> "tool_deleted", tool_id |-> tool_id]]
        /\ UNCHANGED <<profiles, nextProfileId, nextToolId, nextAssignId, read_only,
                       codecVars, txn, seen, creating, backups, updating, now>>

\* ToolService.assign_tool_to_head; deleted is the set of rows its DELETE removed
AssignToolToHead(profile_id, head_number, tool_id, params) ==
    LET asg  == assign_tool_to_head(profile_id, head_number, tool_id, params)
        call == [op |-> "assign_tool_to_head", profile_id |-> profile_id,
                 head_number |-> head_number, tool_id |-> tool_id, params |-> params,
                 deleted |-> {}, raised |-> "", result |-> FALSE, event |-> NoEvent]
    IN  /\ nextAssignId <= MaxAssignments
        /\ UNCHANGED <<profiles, nextProfileId, tools, nextToolId, read_only,
                       genArgs, genOut, decIn, decOut, genArgs2, genOut2, txn, seen, creating, deleting, backups, updating, now>>
        /\ IF read_only
           THEN /\ last' = [call EXCEPT !.raised = PermissionError]
                /\ UNCHANGED <<assignments, nextAssignId>>
           ELSE /\ assignments' = asg.assignments
                /\ nextAssignId' = IF asg.success THEN nextAssignId + 1 ELSE nextAssignId
                /\ last' = [call EXCEPT
                       !.result = asg.success,
                       !.deleted = IF asg.success THEN assignments \ asg.assignments ELSE {},
                       !.event = IF asg.success
                                 THEN [type |-> "tool_assigned", profile_id |-> profile_id,
                                       head_number |-> head_number, tool_id |-> tool_id]
                                 ELSE NoEvent]

\* clear_head_assignment without the permission check
ClearHeadAssignment_NoGate(profile_id, head_number) ==
    LET call == [op |-> "clear_head_assignment", profile_id |-> profile_id,
                 head_number |-> head_number, raised |-> "", result |-> FALSE,
                 event |-> NoEvent]
    IN  /\ UNCHANGED <<profiles, nextProfileId, tools, nextToolId, nextAssignId, read_only,
                       genArgs, genOut, decIn, decOut, genArgs2, genOut2, txn, seen, creating, deleting, backups, updating, now>>
        /\ assignments' = {a \in assignments :
               ~(a.Profile_ID = profile_id /\ a.Head_Number = head_number)}
        /\ last' = [call EXCEPT
               !.result = TRUE,
               !.event = [type |-> "assignment_cleared", profile_id |-> profile_id,
                          head_number |-> head_number]]

\* ToolService.clear_head_assignment
ClearHeadAssignment(profile_id, head_number) ==
    LET call == [op |-> "clear_head_assignment", profile_id |-> profile_id,
                 head_number |-> head_number, raised |-> "", result |-> FALSE,
                 event |-> NoEvent]
    IN  /\ UNCHANGED <<profiles, nextProfileId, tools, nextToolId, nextAssignId, read_only,
                       genArgs, genOut, decIn, decOut, genArgs2, genOut2, txn, seen, creating, deleting, backups, updating, now>>
        /\ IF read_only
           THEN /\ last' = [call EXCEPT !.raised = PermissionError]
                /\ UNCHANGED assignments
           ELSE /\ assignments' = {a \in assignments :
                       ~(a.Profile_ID = profile_id /\ a.Head_Number = head_number)}
                /\ last' = [call EXCEPT
                       !.result = TRUE,
                       !.event = [type |-> "assignment_cleared", profile_id |-> profile_id,
                                  head_number |-> head_number]]

\* ToolService.assign_tool_to_head step by step, as a reader on another
\* connection can interleave with it.  First step: the permission check, the
\* new connection and the DELETE, which opens the transaction.
AssignDelete(profile_id, head_number, tool_id, params) ==
    LET call == [op |-> "assign_tool_to_head", profile_id |-> profile_id,
                 head_number |-> head_number, tool_id |-> tool_id, params |-> params,
                 deleted |-> {}, raised |-> "", result |-> FALSE, event |-> NoEvent]
        kept == {a \in assignments :
                    ~(a.Profile_ID = profile_id /\ a.Head_Number = head_number)}
    IN  /\ ~txn.open
        /\ nextAssignId <= MaxAssignments
        /\ UNCHANGED <<storeVars, read_only, codecVars, seen, creating, deleting, backups, updating, now>>
        /\ IF read_only
           THEN /\ last' = [call EXCEPT !.raised = PermissionError]
                /\ UNCHANGED txn
           ELSE /\ txn' = [open |-> TRUE, step |-> "delete", profile_id |-> profile_id,
                           head_number |-> head_number, tool_id |-> tool_id,
                           params |-> params, replaced |-> assignments \ kept,
                           rows |-> kept]
                /\ UNCHANGED last

\* second step: the INSERT; a constraint error leaves the with block, which
\* rolls the transaction back, and the call returns False
AssignInsert ==
    LET call == [op |-> "assign_tool_to_head", profile_id |-> txn.profile_id,
                 head_number |-> txn.head_number, tool_id |-> txn.tool_id,
                 params |-> txn.params, deleted |-> {}, raised |-> "",
                 result |-> FALSE, event |-> NoEvent]
        row  == [ID            |-> nextAssignId,
                 Profile_ID    |-> txn.profile_id,
                 Tool_ID       |-> txn.tool_id,
                 Head_Number   |-> txn.head_number,
                 RPM           |-> txn.params.rpm,
                 Pass_Depth    |-> txn.params.pass_depth,
                 Work_Material |-> txn.params.work_material,
                 Remarks       |-> txn.params.remarks]
    IN  /\ txn.open
        /\ txn.step = "delete"
        /\ UNCHANGED <<storeVars, read_only, codecVars, seen, creating, deleting, backups, updating, now>>
        /\ IF InsertViolates(txn.profile_id, txn.head_number, txn.tool_id, txn.rows)
           THEN /\ txn' = NoTxn
                /\ last' = call
           ELSE /\ txn' = [txn EXCEPT !.step = "insert", !.rows = @ \cup {row}]
                /\ UNCHANGED last

\* third step: conn.commit(), return True and the tool_assigned notification
AssignCommit ==
    /\ txn.open
    /\ txn.step = "insert"
    /\ assignments' = txn.rows
    /\ nextAssignId' = nextAssignId + 1
    /\ txn' = NoTxn
    /\ last' = [op |-> "assign_tool_to_head", profile_id |-> txn.profile_id,
                head_number |-> txn.head_number, tool_id |-> txn.tool_id,
                params |-> txn.params, deleted |-> txn.replaced, raised |-> "",
                result |-> TRUE,
                event |-> [type |-> "tool_assigned", profile_id |-> txn.profile_id,
                           head_number |-> txn.head_number, tool_id |-> txn.tool_id]]
    /\ UNCHANGED <<profiles, nextProfileId, tools, nextToolId, read_only, codecVars, seen, creating, deleting, backups, updating, now>>

\* a reader calls DatabaseManager.get_tool_assignments; the position of the
\* writer at that moment is kept with what the reader got
GetToolAssignments(profile_id) ==
    /\ seen' = [called |-> TRUE, profile_id |-> profile_id,
                rows |-> get_tool_assignments(profile_id), during |-> txn]
    /\ UNCHANGED <<storeVars, read_only, last, txn, codecVars, creating, deleting, backups, updating, now>>

\* ToolService.get_required_position_for_head
GetRequiredPositionForHead(head_number) ==
    /\ last' = [op |-> "get_required_position_for_head", head_number |-> head_number,
                raised |-> "", position |-> get_required_position_for_head(head_number)]
    /\ UNCHANGED <<storeVars, read_only, codecVars, txn, seen, creating, deleting, backups, updating, now>>

\* ProfileService.create_profile, with a name no stored profile has
CreateProfile ==
    LET call == [op |-> "create_profile", profile_id |-> 0, raised |-> ""]
    IN  /\ nextProfileId <= MaxProfiles
        /\ UNCHANGED <<tools, nextToolId, assignments, nextAssignId, read_only,
                       genArgs, genOut, decIn, decOut, genArgs2, genOut2, txn, seen, creating, deleting, backups, updating, now>>
        /\ IF read_only
           THEN /\ last' = [call EXCEPT !.raised = PermissionError]
                /\ UNCHANGED <<profiles, nextProfileId>>
           ELSE /\ profiles' = profiles \cup {nextProfileId}
                /\ nextProfileId' = nextProfileId + 1
                /\ last' = [call EXCEPT !.profile_id = nextProfileId]

\* ProfileService.create_profile in a store that holds up to max profiles
CreateProfileUpTo(max) ==
    LET call == [op |-> "create_profile", profile_id |-> 0, raised |-> ""]
    IN  /\ nextProfileId <= max
        /\ UNCHANGED <<tools, nextToolId, assignments, nextAssignId, read_only,
                       genArgs, genOut, decIn, decOut, genArgs2, genOut2, txn, seen, creating, deleting, backups, updating, now>>
        /\ IF read_only
           THEN /\ last' = [call EXCEPT !.raised = PermissionError]
                /\ UNCHANGED <<profiles, nextProfileId>>
           ELSE /\ profiles' = profiles \cup {nextProfileId}
                /\ nextProfileId' = nextProfileId + 1
                /\ last' = [call EXCEPT !.profile_id = nextProfileId]

\* ProfileService.delete_profile; removed is the set of assignments the
\* cascade took with the profile
DeleteProfile(profile_id) ==
    LET del  == delete_profile(profile_id)
        call == [op |-> "delete_profile", profile_id |-> profile_id, raised |-> "",
                 result |-> FALSE, removed |-> {}]
    IN  /\ UNCHANGED <<nextProfileId, nextToolId, nextAssignId, read_only,
                       genArgs, genOut, decIn, decOut, genArgs2, genOut2, txn, seen, creating, deleting, backups, updating, now>>
        /\ IF read_only
           THEN /\ last' = [call EXCEPT !.raised = PermissionError]
                /\ UNCHANGED <<profiles, tools, assignments>>
           ELSE /\ profiles' = del.profiles
                /\ tools' = del.tools
                /\ assignments' = del.assignments
                /\ last' = [call EXCEPT !.result = del.success,
                                         !.removed = assignments \ del.assignments]

\* the database file as BackupManager copies it
StoreCopy ==
    [profiles |-> profiles, nextProfileId |-> nextProfileId, tools |-> tools,
     nextToolId |-> nextToolId, assignments |-> assignments, nextAssignId |-> nextAssignId]

\* the archives without the one of a name
WithoutArchive(archives, name) ==
    LET Other(a) == a.name # name
    IN  SelectSeq(archives, Other)

\* a Python slice s[:k]
SliceTo(s, k) ==
    LET n == IF k >= 0 THEN (IF k < Len(s) THEN k ELSE Len(s))
             ELSE (IF Len(s) + k > 0 THEN Len(s) + k ELSE 0)
    IN  SubSeq(s, 1, n)

\* BackupManager._cleanup_old_backups: with more than max_backups archives,
\* the archives sorted by modification time without backups[:-max_backups]
cleanup_old_backups(archives, max_backups) ==
    IF Len(archives) <= max_backups THEN archives
    ELSE SubSeq(archives, Len(SliceTo(archives, 0 - max_backups)) + 1, Len(archives))

\* BackupManager.create_backup: a copy of the database file in the archive
\* named by the second and the type, written over an archive of that name,
\* then the cleanup of the old archives
CreateBackup(backup_type, max_backups) ==
    LET name    == <<now, backup_type>>
        written == WithoutArchive(backups, name) \o <<[name |-> name, copy |-> StoreCopy]>>
    IN  /\ backups' = cleanup_old_backups(written, max_backups)
        /\ last' = [op |-> "create_backup", name |-> name, result |-> TRUE]
        /\ UNCHANGED <<storeVars, read_only, codecVars, txn, seen, creating, deleting,
                       updating, now>>

\* BackupManagerWindow.delete_selected: os.remove of the selected archive
DeleteBackup(backup_name) ==
    /\ backups' = WithoutArchive(backups, backup_name)
    /\ last' = [op |-> "delete_backup", name |-> backup_name,
                result |-> \E i \in DOMAIN backups : backups[i].name = backup_name]
    /\ UNCHANGED <<storeVars, read_only, codecVars, txn, seen, creating, deleting,
                   updating, now>>

\* BackupManager.restore_backup: the database file is replaced by the copy
\* in the archive, the AUTOINCREMENT counters with it; False when no archive
\* has the name
RestoreBackup(backup_name) ==
    LET found  == {i \in DOMAIN backups : backups[i].name = backup_name}
        backup == backups[CHOOSE i \in found : TRUE].copy
    IN  /\ last' = [op |-> "restore_backup", name |-> backup_name, result |-> found # {}]
        /\ IF found # {}
           THEN /\ profiles' = backup.profiles
                /\ nextProfileId' = backup.nextProfileId
                /\ tools' = backup.tools
                /\ nextToolId' = backup.nextToolId
                /\ assignments' = backup.assignments
                /\ nextAssignId' = backup.nextAssignId
           ELSE UNCHANGED storeVars
        /\ UNCHANGED <<read_only, codecVars, txn, seen, creating, deleting, backups,
                       updating, now>>

\* the clock reaches the next second
ClockTick ==
    /\ now < MaxNow
    /\ now' = now + 1
    /\ UNCHANGED <<storeVars, read_only, last, codecVars, txn, seen, creating, deleting,
                   backups, updating>>

\* SecurityManager.toggle_security_mode
ToggleSecurityMode ==
    /\ read_only' = ~read_only
    /\ last' = [op |-> "toggle_security_mode"]
    /\ UNCHANGED <<storeVars, codecVars, txn, seen, creating, deleting, backups, updating, now>>

\* SecurityManager.set_full_access
SetFullAccess ==
    /\ read_only' = FALSE
    /\ last' = [op |-> "set_full_access"]
    /\ UNCHANGED <<storeVars, codecVars, txn, seen, creating, deleting, backups, updating, now>>

\* SecurityManager.set_read_only
SetReadOnly ==
    /\ read_only' = TRUE
    /\ last' = [op |-> "set_read_only"]
    /\ UNCHANGED <<storeVars, codecVars, txn, seen, creating, deleting, backups, updating, now>>

(***************************************************************************)
(* Specifications                                                          *)
(***************************************************************************)
NotCalled == [called |-> FALSE]
NoArgs == [none |-> TRUE]

\* the store after DatabaseManager.__init__ on a new file; the security mode
\* is the one the configuration file holds
StoreInit ==
    /\ profiles = {}
    /\ nextProfileId = 1
    /\ tools = {}
    /\ nextToolId = 1
    /\ assignments = {}
    /\ nextAssignId = 1
    /\ read_only \in BOOLEAN
    /\ last = [op |-> "init"]
    /\ txn = NoTxn
    /\ seen = NotCalled
    /\ creating = [c \in Callers |-> Idle]
    /\ deleting = Idle
    /\ updating = Idle
    /\ backups = <<>>
    /\ now = 0

Init ==
    /\ StoreInit
    /\ genArgs = NoArgs
    /\ genOut = NotCalled
    /\ decIn = NoneCode
    /\ decOut = NotCalled
    /\ genArgs2 = NoArgs
    /\ genOut2 = NotCalled

(***************************************************************************)
(* ToolCodeGenerator called on its own: the arguments are drawn by the     *)
(* initial state, the actions apply generate and decode to them            *)
(***************************************************************************)
GenPositions == {"Bottom", "Top", "Right", "Left", "Diagonal", "1"}
GenToolTypes == {"Straight", "Profile", "Curved", "0"}
GenInputs ==
    [profile_id : (MinProfileId - 1)..(MaxProfileId + 1),
     position   : GenPositions,
     tool_type  : GenToolTypes,
     set_number : (MinSetNumber - 1)..(MaxSetNumber + 1)]

\* strings of six characters, and strings of other lengths; among the
\* characters a tab, a no-break space, an Arabic-Indic and a fullwidth digit
\* and a superscript two
DecodeInputs ==
    {<<a, b, c, d, e, f>> :
        a \in {"1", "4", "9"}, b \in {"0", "1", "7"},
        c \in {"0", "1", "A", "+", " ", "\t"},
        d \in {"0", "9", "_", "A", "U+FF14"},
        e \in {"0", "7", "A", " ", "U+00A0"},
        f \in {"0", "3", "9", "A", "+", "U+0663", "U+00B2"}}
    \cup {NoneCode, <<>>, <<"1", "2", "3", "4", "5">>, <<"1", "2", "3", "4", "5", "6", "7">>}
    \cup {<<"9", "0", "1", "9", "9", "1">>, <<"B", "x", "1", "9", "9", "1">>,
          <<"2", "1", "1", "0", "0", "3">>, <<"2", "1", "0", "0", "7", "3">>,
          <<"1", "2", "A", "4", "5", "6">>}

CodecInit ==
    /\ StoreInit
    /\ genOut = NotCalled
    /\ decOut = NotCalled
    /\ genArgs2 = NoArgs
    /\ genOut2 = NotCalled
    /\ \/ genArgs \in GenInputs /\ decIn = NoneCode
       \/ genArgs = NoArgs /\ decIn \in DecodeInputs

\* ToolCodeGenerator.generate(**genArgs)
Generate ==
    /\ genArgs # NoArgs
    /\ genOut = NotCalled
    /\ genOut' = generate(genArgs.profile_id, genArgs.position, genArgs.tool_type,
                          genArgs.set_number)
    /\ UNCHANGED <<storeVars, txn, seen, creating, deleting, backups, updating, now, read_only, last, genArgs2, genOut2, genArgs, decIn, decOut>>

\* ToolCodeGenerator.decode of the code generate returned
DecodeGenerated ==
    /\ genOut # NotCalled
    /\ genOut.ok
    /\ decOut = NotCalled
    /\ decIn' = genOut.code
    /\ decOut' = decode(genOut.code)
    /\ UNCHANGED <<storeVars, txn, seen, creating, deleting, backups, updating, now, read_only, last, genArgs2, genOut2, genArgs, genOut>>

\* ToolCodeGenerator.decode(decIn)
Decode ==
    /\ genArgs = NoArgs
    /\ decOut = NotCalled
    /\ decOut' = decode(decIn)
    /\ UNCHANGED <<storeVars, txn, seen, creating, deleting, backups, updating, now, read_only, last, genArgs2, genOut2, genArgs, genOut, decIn>>

CodecNext == Generate \/ DecodeGenerated \/ Decode

SpecCodec == CodecInit /\ [][CodecNext]_vars

\* two generate calls, to compare their codes: ids at both ends of the range
\* and one out of it, names, digit strings and a name generate rejects
PairInputs ==
    [profile_id : {MinProfileId, 10, MaxProfileId, MaxProfileId + 1},
     position   : {"Bottom", "Top", "Left", "1", "2", "Diagonal"},
     tool_type  : {"Straight", "Profile", "0", "1"},
     set_number : {MinSetNumber, 2, MaxSetNumber}]

PairInit ==
    /\ StoreInit
    /\ genArgs \in PairInputs
    /\ genArgs2 \in PairInputs
    /\ genOut = NotCalled
    /\ genOut2 = NotCalled
    /\ decIn = NoneCode
    /\ decOut = NotCalled

\* ToolCodeGenerator.generate(**genArgs2)
GenerateSecond ==
    /\ genArgs2 # NoArgs
    /\ genOut2 = NotCalled
    /\ genOut2' = generate(genArgs2.profile_id, genArgs2.position, genArgs2.tool_type,
                           genArgs2.set_number)
    /\ UNCHANGED <<storeVars, txn, seen, creating, deleting, backups, updating, now, read_only, last, genArgs, genOut, decIn, decOut,
                   genArgs2>>

PairNext == Generate \/ GenerateSecond

SpecPair == PairInit /\ [][PairNext]_vars

\* the required position of a head asked in every state of a store with
\* tools and assignments
HeadsNext ==
    \/ CreateProfile
    \/ \E tool \in PlainToolInputs : CreateTool(tool)
    \/ \E ph \in HeadInputs \cup {<<1, MinHead - 1>>}, id \in 1..MaxTools,
          params \in AssignParams :
          AssignToolToHead(ph[1], ph[2], id, params)
    \/ \E h \in (MinHead - 1)..(MaxHead + 1) : GetRequiredPositionForHead(h)

SpecHeads == Init /\ [][HeadsNext]_vars

\* tools created and then edited to another identity
IdentityNext ==
    \/ CreateProfile
    \/ \E tool \in IdentityInputs : CreateTool(tool)
    \/ \E id \in 1..MaxTools : \E tool \in Carrying(id, IdentityInputs, IdentityInputs) :
          UpdateTool(id, tool)

SpecIdentity == Init /\ [][IdentityNext]_vars

SecurityNext == ToggleSecurityMode \/ SetFullAccess \/ SetReadOnly

\* the mutating calls of ToolService between changes of the security mode
SecureInputs == {ToolOf(1, "Bottom", "Profile", 1, NULL, DefaultDetails),
                 ToolOf(1, "Bottom", "Profile", 2, NULL, DefaultDetails)}

SecureParams == {p \in AssignParams : \A q \in AssignParams : p = q \/ p.rpm <= q.rpm}

SecureNext ==
    \/ SecurityNext
    \/ CreateProfile
    \/ \E tool \in SecureInputs : CreateTool(tool)
    \/ \E id \in 1..MaxTools : \E tool \in Carrying(id, SecureInputs, SecureInputs) :
          UpdateTool(id, tool)
    \/ \E id \in 1..MaxTools : DeleteTool(id)
    \/ \E id \in 1..MaxTools, params \in SecureParams :
          AssignToolToHead(1, MinHead, id, params)
    \/ ClearHeadAssignment(1, MinHead)

SpecSecurity == Init /\ [][SecureNext]_vars

\* profiles, their tools and assignments across profiles: one profile more
\* than the other specifications hold, so that a head of one profile can
\* carry a tool of another; the first tool is the one moved to another
\* profile and deleted
RefsProfiles == 1..(MaxProfiles + 1)

RefsInputs == {ToolOf(p, "Bottom", "Profile", 1, NULL, DefaultDetails) : p \in RefsProfiles}

RefsNext ==
    \/ CreateProfileUpTo(MaxProfiles + 1)
    \/ \E p \in RefsProfiles : DeleteProfile(p)
    \/ \E tool \in RefsInputs : CreateTool(tool)
    \/ \E tool \in Carrying(1, {t \in RefsInputs : t.profile_id = MaxProfiles + 1}, RefsInputs) :
          UpdateTool(1, tool)
    \/ DeleteTool(1)
    \/ \E p \in RefsProfiles, id \in 1..MaxTools, params \in SecureParams :
          AssignToolToHead(p, MinHead, id, params)
    \/ \E p \in RefsProfiles : ClearHeadAssignment(p, MinHead)

SpecRefs == Init /\ [][RefsNext]_vars

\* one tool of each profile assigned to the heads 1 and 2 of two profiles
SeveralNext ==
    \/ CreateProfileUpTo(MaxProfiles + 1)
    \/ \E tool \in RefsInputs : CreateTool(tool)
    \/ \E p \in RefsProfiles, h \in {MinHead, MinHead + 1}, id \in 1..MaxTools,
          params \in SecureParams : AssignToolToHead(p, h, id, params)

SpecSeveral == Init /\ [][SeveralNext]_vars

\* two callers creating tools at the same time: the same tool twice, two
\* tools of one set with and without a photo, a tool of a missing profile
RaceInputs ==
    {ToolOf(1, "Bottom", "Profile", 1, NULL, DefaultDetails),
     ToolOf(1, "Bottom", "Profile", 1, "P1", DefaultDetails),
     ToolOf(1, "Bottom", "Profile", 2, NULL, DefaultDetails),
     ToolOf(2, "Bottom", "Profile", 1, NULL, DefaultDetails)}

RaceNext ==
    \/ CreateProfile
    \/ \E c \in Callers, tool \in RaceInputs : CreateToolCheck(c, tool)
    \/ \E c \in Callers : CreateToolSelect(c)
    \/ \E c \in Callers : CreateToolInsert(c)

SpecRace == Init /\ [][RaceNext]_vars

\* a delete_tool call running step by step next to the delete_tool and
\* assignment calls of another caller
DeletionNext ==
    \/ CreateProfile
    \/ \E tool \in SecureInputs : CreateTool(tool)
    \/ \E id \in 1..MaxTools : DeleteTool(id)
    \/ \E id \in 1..MaxTools : DeleteToolCheck(id)
    \/ DeleteToolSelect
    \/ DeleteToolDelete
    \/ \E h \in {MinHead, MinHead + 1}, id \in 1..MaxTools, params \in SecureParams :
          AssignToolToHead(1, h, id, params)
    \/ \E h \in {MinHead, MinHead + 1} : ClearHeadAssignment(1, h)

SpecDeletion == Init /\ [][DeletionNext]_vars

\* an update_tool call running step by step next to the create_tool and
\* delete_tool calls of other callers, which run step by step too
UpdateInputs ==
    {ToolOf(1, "Bottom", "Profile", 1, NULL, DefaultDetails),
     ToolOf(1, "Bottom", "Profile", 2, NULL, EditedDetails),
     ToolOf(1, "Top", "Profile", 1, NULL, DefaultDetails)}

UpdateNext ==
    \/ CreateProfile
    \/ \E tool \in UpdateInputs : CreateToolCheck(1, tool)
    \/ CreateToolSelect(1)
    \/ CreateToolInsert(1)
    \/ \E id \in 1..MaxTools : DeleteToolCheck(id)
    \/ DeleteToolSelect
    \/ DeleteToolDelete
    \/ \E id \in 1..MaxTools : \E tool \in Carrying(id, UpdateInputs, UpdateInputs) :
          UpdateToolGet(id, tool)
    \/ UpdateToolSelect
    \/ UpdateToolUpdate

SpecUpdate == Init /\ [][UpdateNext]_vars

\* the names an archive can have
BackupTypes == {"manual", "auto"}
BackupNames == (0..MaxNow) \X BackupTypes

\* the store with backups made, deleted and restored between the calls
BackupNext ==
    \/ CreateProfile
    \/ \E tool \in SecureInputs : CreateTool(tool)
    \/ \E id \in 1..MaxTools : DeleteTool(id)
    \/ \E backup_type \in BackupTypes, max_backups \in 1..MaxBackups :
          CreateBackup(backup_type, max_backups)
    \/ \E backup_name \in BackupNames : DeleteBackup(backup_name)
    \/ \E backup_name \in BackupNames : RestoreBackup(backup_name)
    \/ ClockTick

SpecBackup == Init /\ [][BackupNext]_vars

ProfileNext == CreateProfile \/ \E p \in 1..MaxProfiles : DeleteProfile(p)

\* the forms saved by an editor: the first tool as created without a photo,
\* and the second tool of its set with a photo and edited details
EditInputs ==
    {ToolOf(1, "Bottom", "Profile", 1, NULL, DefaultDetails),
     ToolOf(1, "Bottom", "Profile", 2, "P1", EditedDetails)}

\* tools with photos and details, no assignments
ToolsNext ==
    \/ CreateProfile
    \/ \E tool \in ToolInputs : CreateTool(tool)
    \/ \E id \in 1..MaxTools : \E tool \in Carrying(id, EditInputs, ToolInputs \cup EditInputs) :
          UpdateTool(id, tool)
    \/ \E id \in 1..MaxTools : DeleteTool(id)

SpecTools == Init /\ [][ToolsNext]_vars

\* assign_tool_to_head calls for head 1 of profile 1 running step by step
\* next to a reader; the other writers wait for the lock of the open
\* transaction
TxnNext ==
    \/ ~txn.open /\ CreateProfile
    \/ ~txn.open /\ \E tool \in PlainToolInputs : CreateTool(tool)
    \/ \E id \in 1..MaxTools, params \in AssignParams :
          AssignDelete(1, MinHead, id, params)
    \/ AssignInsert
    \/ AssignCommit
    \/ \E p \in 1..MaxProfiles : GetToolAssignments(p)

SpecTxn == Init /\ [][TxnNext]_vars

\* plain tools, created and deleted, and their assignments to heads
Next ==
    \/ ProfileNext
    \/ \E tool \in PlainToolInputs : CreateTool(tool)
    \/ \E id \in 1..MaxTools : DeleteTool(id)
    \/ \E ph \in HeadInputs, id \in 1..MaxTools, params \in AssignParams :
          AssignToolToHead(ph[1], ph[2], id, params)
    \/ \E ph \in HeadInputs : ClearHeadAssignment(ph[1], ph[2])

Spec == Init /\ [][Next]_vars

(***************************************************************************)
(* Properties                                                              *)
(***************************************************************************)
ValidPositions == {"Bottom", "Top", "Right", "Left"}
ValidToolTypes == {"Straight", "Profile"}
ValidGenArgs ==
    /\ genArgs # NoArgs
    /\ genArgs.profile_id \in 1..999
    /\ genArgs.position \in ValidPositions
    /\ genArgs.tool_type \in ValidToolTypes
    /\ genArgs.set_number \in 1..9

\* C1: for every profile id in 1..999, position, tool type and set number in
\* 1..9, generate returns a code and decode of that code is not None and is
\* exactly the record of the four arguments.
C1_RoundTrip ==
    ValidGenArgs =>
        /\ genOut # NotCalled => genOut.ok
        /\ decOut # NotCalled =>
              decOut = [position   |-> genArgs.position,
                        tool_type  |-> genArgs.tool_type,
                        profile_id |-> genArgs.profile_id,
                        set_number |-> genArgs.set_number]

\* a padded profile id has been generated and decoded
C1_Witness ==
    /\ ValidGenArgs
    /\ genArgs.profile_id = 7
    /\ genArgs.position = "Left"
    /\ decOut # NotCalled
    /\ decOut # None

ClaimedPositionDigit == [Bottom |-> "1", Top |-> "2", Right |-> "3", Left |-> "4"]
ClaimedTypeDigit == [Straight |-> "0", Profile |-> "1"]
ClaimedPositionName == ("1" :> "Bottom" @@ "2" :> "Top" @@ "3" :> "Right" @@ "4" :> "Left")
ClaimedTypeName == ("0" :> "Straight" @@ "1" :> "Profile")

\* C2: whenever generate returns, the result is six decimal digits: the
\* position digit, the tool type digit, the profile id padded to three
\* digits and the set number.
C2_SixDigitLayout ==
    (genOut # NotCalled /\ genOut.ok) =>
        /\ Len(genOut.code) = 6
        /\ \A i \in 1..Len(genOut.code) : genOut.code[i] \in {Digits[k] : k \in 1..10}
        /\ genArgs.position \in DOMAIN ClaimedPositionDigit
        /\ genOut.code[1] = ClaimedPositionDigit[genArgs.position]
        /\ genArgs.tool_type \in DOMAIN ClaimedTypeDigit
        /\ genOut.code[2] = ClaimedTypeDigit[genArgs.tool_type]
        /\ DigitVal(genOut.code[3]) * 100 + DigitVal(genOut.code[4]) * 10
              + DigitVal(genOut.code[5]) = genArgs.profile_id
        /\ DigitVal(genOut.code[6]) = genArgs.set_number

\* C3: no two stored tools have the same Auto_Generated_Code, whatever
\* create_tool, update_tool and delete_tool calls were made.
C3_CodeUnique ==
    \A t \in tools : \A u \in tools :
        t.ID # u.ID => t.Auto_Generated_Code # u.Auto_Generated_Code

\* two tools are stored and an update to the code of the other one was refused
C3_Witness ==
    /\ Cardinality(tools) = 2
    /\ last.op = "update_tool"
    /\ last.raised = ""
    /\ ~last.result
    /\ \E t \in tools : t.ID # last.tool_id
                        /\ t.Auto_Generated_Code = last.tool.code

\* the members of the set of a code: the stored tools whose code shares its
\* first five characters
SetOf(T, code) == {t \in T : Like(t.Auto_Generated_Code, BaseCode(code))}

\* C4: all stored tools whose codes share the first five characters have the
\* same Photo, in every reachable state.
C4_SetPhotoInvariant ==
    \A t \in tools : \A u \in SetOf(tools, t.Auto_Generated_Code) : t.Photo = u.Photo

\* the row a successful create_tool inserted, and the rows stored before it
CreatedRow == CHOOSE t \in tools : t.ID = last.tool_id
Created == last.op = "create_tool" /\ last.raised = "" /\ \E t \in tools : t.ID = last.tool_id
EarlierMembers ==
    {t \in SetOf(tools, CreatedRow.Auto_Generated_Code) :
        t.ID # last.tool_id /\ t.Profile_ID = last.tool.profile_id}
Earliest == CHOOSE t \in EarlierMembers : \A u \in EarlierMembers : t.ID <= u.ID

\* C7: an inserted tool takes the photo of the lowest-id tool of
\* its set (same profile, same first five characters) when that photo is not
\* null, whatever the caller supplied; with no such tool it keeps exactly the
\* caller's photo.
C7_PhotoOnCreate ==
    Created =>
        /\ (EarlierMembers # {} /\ Earliest.Photo # NULL) => CreatedRow.Photo = Earliest.Photo
        /\ EarlierMembers = {} => CreatedRow.Photo = last.tool.photo

\* the update_tool call found its tool; the rows stored before the call are
\* the rows of the other tools and the row the call read
Updated == last.op = "update_tool" /\ last.raised = "" /\ last.original # {}
Original == CHOOSE t \in last.original : TRUE
BeforeUpdate == {t \in tools : t.ID # last.tool_id} \cup last.original
WasFirst == \A t \in SetOf(BeforeUpdate, Original.Auto_Generated_Code) : Original.ID <= t.ID
PhotoChange == last.tool.photo # Original.Photo
UpdatedRow == CHOOSE t \in tools : t.ID = last.tool_id

\* C8: update_tool on the first member of a set with a photo other than the
\* stored one leaves that tool and every member of its set with the new photo.
C8_PhotoPropagation ==
    (Updated /\ last.result /\ WasFirst /\ PhotoChange) =>
        \A t \in SetOf(tools, UpdatedRow.Auto_Generated_Code) : t.Photo = last.tool.photo

\* C9: update_tool with a changed photo on a tool that is not the first of
\* its set reports "Image can only be updated for the first tool in the set"
\* and changes no stored photo.
C9_PhotoEditRejected ==
    (Updated /\ ~WasFirst /\ PhotoChange) =>
        /\ last.error = "Image can only be updated for the first tool in the set"
        /\ \A t \in tools : \A b \in BeforeUpdate : t.ID = b.ID => t.Photo = b.Photo

SameIdentity ==
    /\ last.tool.profile_id = Original.Profile_ID
    /\ last.tool.position = Original.Position
    /\ last.tool.tool_type = Original.Tool_Type
    /\ last.tool.set_number = Original.Set_Number

\* C10: an update_tool call on a non-first set member that carries a photo
\* change and other field changes succeeds when the identity is unchanged,
\* and a successful call stores knives count, status, notes and template id
\* as given while the stored photo stays as it was.
C10_PartialUpdate ==
    (Updated /\ ~WasFirst /\ PhotoChange) =>
        /\ SameIdentity => last.result
        /\ last.result =>
              /\ UpdatedRow.Knives_Count = last.tool.knives_count
              /\ UpdatedRow.Set_Status = last.tool.status
              /\ UpdatedRow.Notes = last.tool.notes
              /\ UpdatedRow.Template_ID = last.tool.template_id
              /\ UpdatedRow.Photo = Original.Photo

\* C5: there is at most one Tool_Assignments row for each
\* (profile, head number), in every reachable state.
C5_AssignmentUnique ==
    \A a \in assignments : \A b \in assignments :
        (a.Profile_ID = b.Profile_ID /\ a.Head_Number = b.Head_Number) => a = b

\* an assignment replaced the row of another tool on the same head
C5_Witness ==
    /\ last.op = "assign_tool_to_head"
    /\ last.result
    /\ \E d \in last.deleted : d.Tool_ID # last.tool_id
    /\ \E a \in assignments : a.Profile_ID = last.profile_id
                              /\ a.Head_Number = last.head_number

OnHead(A, profile_id, head_number) ==
    {a \in A : a.Profile_ID = profile_id /\ a.Head_Number = head_number}

\* a step of a successful assign_tool_to_head call leaves exactly one row for
\* its (profile, head), holding the arguments of the call, and the rows of
\* every other (profile, head) as they were
C6_Step ==
    (last'.op = "assign_tool_to_head" /\ last'.raised = "" /\ last'.result) =>
        /\ Cardinality(OnHead(assignments', last'.profile_id, last'.head_number)) = 1
        /\ \A a \in OnHead(assignments', last'.profile_id, last'.head_number) :
              /\ a.Tool_ID = last'.tool_id
              /\ a.RPM = last'.params.rpm
              /\ a.Pass_Depth = last'.params.pass_depth
              /\ a.Work_Material = last'.params.work_material
              /\ a.Remarks = last'.params.remarks
        /\ assignments' \ OnHead(assignments', last'.profile_id, last'.head_number)
              = assignments \ OnHead(assignments, last'.profile_id, last'.head_number)

\* C6: after assign_tool_to_head(p, h, X) and then assign_tool_to_head(p, h, Y)
\* succeed there is exactly one row for (p, h), it holds Y and the parameters
\* of the second call, and the assignments of the other heads are unchanged.
C6_AssignReplace == [][C6_Step]_vars

\* tool Y replaced tool X on a head, with other parameters, while another
\* head of the profile is assigned
C6_Witness ==
    /\ last.op = "assign_tool_to_head"
    /\ last.result
    /\ \E d \in last.deleted : d.Tool_ID # last.tool_id /\ d.RPM # last.params.rpm
    /\ \E a \in assignments : a.Head_Number # last.head_number

\* a step of an assign_tool_to_head call that returns False leaves every
\* assignment row as it was
C11_Step ==
    (last'.op = "assign_tool_to_head" /\ last'.raised = "" /\ ~last'.result) =>
        assignments' = assignments

\* C11: when the insert of assign_tool_to_head(p, h, T) fails the call
\* returns False and the assignment (p, h) had before the call is still
\* stored unchanged; a failed replace never empties the head.
C11_AssignRollback == [][C11_Step]_vars

\* an assignment of a tool that does not exist was refused on a head that
\* holds an assignment
C11_Witness ==
    /\ last.op = "assign_tool_to_head"
    /\ last.raised = ""
    /\ ~last.result
    /\ last.profile_id \in profiles
    /\ \A t \in tools : t.ID # last.tool_id
    /\ OnHead(assignments, last.profile_id, last.head_number) # {}

\* C12: a get_tool_assignments call made while assign_tool_to_head replaces
\* the assignment of (p, h), at any point after the delete and before the
\* commit, returns exactly one assignment for h of profile p: the old one or
\* the new one, never none.
C12_NoIntermediateState ==
    (/\ seen # NotCalled
     /\ seen.during.open
     /\ seen.during.replaced # {}
     /\ seen.profile_id = seen.during.profile_id) =>
        /\ seen.during.head_number \in DOMAIN seen.rows
        /\ \E a \in seen.during.replaced
                     \cup OnHead(seen.during.rows, seen.during.profile_id,
                                 seen.during.head_number) :
              \A f \in DOMAIN a : seen.rows[seen.during.head_number][f] = a[f]

\* the reader ran after the INSERT of another tool and before the commit
C12_Witness ==
    /\ seen # NotCalled
    /\ seen.during.open
    /\ seen.during.step = "insert"
    /\ seen.profile_id = seen.during.profile_id
    /\ \E a \in seen.during.replaced : a.Tool_ID # seen.during.tool_id
    /\ seen.during.head_number \in DOMAIN seen.rows

\* the code generate returns for the tool of the call (the empty string when
\* it raises)
GeneratedCode(tool) ==
    LET g == generate(tool.profile_id, tool.position, tool.tool_type, tool.set_number)
    IN  IF g.ok THEN g.code ELSE <<>>

\* a create_tool step whose generated code is the code of a stored tool
DuplicateCreate ==
    /\ last'.op = "create_tool"
    /\ last'.raised # PermissionError
    /\ \E t \in tools : t.Auto_Generated_Code = GeneratedCode(last'.tool)

\* an update_tool step on a stored tool whose code to write (the one
\* generated for a changed identity, else the one the Tool object carries)
\* is not the stored one and is the code of another stored tool
DuplicateUpdate ==
    /\ last'.op = "update_tool"
    /\ last'.raised # PermissionError
    /\ \E o \in last'.original :
          /\ last'.tool.code # o.Auto_Generated_Code
          /\ \E t \in tools : /\ t.ID # o.ID
                               /\ t.Auto_Generated_Code = last'.tool.code

C13_Step ==
    /\ DuplicateCreate =>
          /\ last'.raised = "ValueError"
          /\ tools' = tools
          /\ last'.event = NoEvent
    /\ DuplicateUpdate =>
          /\ last'.raised = ""
          /\ ~last'.result
          /\ tools' = tools
          /\ last'.event = NoEvent

\* C13: create_tool with the code of a stored tool raises ValueError, and
\* update_tool that would give a tool the code of another stored tool
\* returns False; both leave every stored tool as it was and send no
\* notification.
C13_DuplicateNoEffect == [][C13_Step]_vars

\* an update with edited details was refused because its new code is the code
\* of another tool
C13_Witness ==
    /\ last.op = "update_tool"
    /\ last.raised = ""
    /\ ~last.result
    /\ \E o \in last.original :
          /\ o.Set_Status # last.tool.status
          /\ o.Auto_Generated_Code # last.tool.code
          /\ o \in tools
    /\ \E t \in tools : t.ID # last.tool_id /\ t.Auto_Generated_Code = last.tool.code

Generated == genArgs # NoArgs /\ genOut # NotCalled
ValidProfileId == genArgs.profile_id \in 1..999
ValidSetNumber == genArgs.set_number \in 1..9

\* C14: generate called with a position that is not one of the four names
\* raises "Invalid position: {value}", and with a tool type that is not one
\* of the two names raises "Invalid tool type: {value}"; no code is returned,
\* the digit strings included (the profile id being in range, and the
\* position valid where the tool type is judged).
C14_InvalidNamesRejected ==
    (Generated /\ ValidProfileId) =>
        /\ genArgs.position \notin ValidPositions =>
              /\ ~genOut.ok
              /\ genOut.error = "Invalid position:"
              /\ genOut.str_value = genArgs.position
        /\ (genArgs.position \in ValidPositions
              /\ genArgs.tool_type \notin ValidToolTypes) =>
              /\ ~genOut.ok
              /\ genOut.error = "Invalid tool type:"
              /\ genOut.str_value = genArgs.tool_type

\* C15: generate called with a profile id outside 1..999 raises
\* "Profile ID must be 1-999, got {value}"; called with a set number outside
\* 1..9 it returns no code and, the other arguments being valid, raises
\* "Set number must be 1-9, got {value}"; 1, 999 and 1, 9 are accepted.
C15_RangesRejected ==
    Generated =>
        /\ ~ValidProfileId =>
              /\ ~genOut.ok
              /\ genOut.error = "Profile ID must be 1-999, got"
              /\ genOut.int_value = genArgs.profile_id
        /\ ~ValidSetNumber => ~genOut.ok
        /\ (ValidProfileId /\ genArgs.position \in ValidPositions
              /\ genArgs.tool_type \in ValidToolTypes /\ ~ValidSetNumber) =>
              /\ genOut.error = "Set number must be 1-9, got"
              /\ genOut.int_value = genArgs.set_number
        /\ (genArgs.profile_id \in {1, 999} /\ genArgs.position \in ValidPositions
              /\ genArgs.tool_type \in ValidToolTypes /\ genArgs.set_number \in {1, 9}) =>
              genOut.ok

\* set number 10 was refused with the other arguments valid
C15_Witness ==
    /\ Generated
    /\ genArgs.profile_id = 999
    /\ genArgs.position = "Right"
    /\ genArgs.tool_type = "Straight"
    /\ genArgs.set_number = 10
    /\ ~genOut.ok

Decoded == genArgs = NoArgs /\ decOut # NotCalled
SixChars(code) == code # NoneCode /\ Len(code) = 6
AsciiDigits == {Digits[i] : i \in 1..10}
AllDigits(code, from, to) == \A i \in from..to : code[i] \in AsciiDigits

\* C16: decode returns None, and validate_code False, for every argument
\* that is None, empty, not six characters long, or whose characters 3-5 or
\* character 6 are not all decimal digits.
C16_DecodeRejects ==
    (Decoded /\ (~SixChars(decIn) \/ ~AllDigits(decIn, 3, 6))) =>
        /\ decOut = None
        /\ ~validate_code(decIn)

\* C17: for every code of six characters whose characters 3-6 are decimal
\* digits decode returns a record; the position is the mapped name for a
\* first character in 1..4 and "Bottom" for any other, the tool type is the
\* mapped name for a second character 0 or 1 and "Profile" for any other.
\* Checked for the decimal digits of every script, the ASCII ones included.
C17_DecodeLeniency ==
    (Decoded /\ SixChars(decIn) /\ \A i \in 3..6 : decIn[i] \in DigitSet) =>
        /\ decOut # None
        /\ decOut.position =
              (IF decIn[1] \in DOMAIN ClaimedPositionName
               THEN ClaimedPositionName[decIn[1]] ELSE "Bottom")
        /\ decOut.tool_type =
              (IF decIn[2] \in DOMAIN ClaimedTypeName
               THEN ClaimedTypeName[decIn[2]] ELSE "Profile")

\* decode("901991") returned {Bottom, Straight, 199, 1}
C17_Witness ==
    /\ Decoded
    /\ decIn = <<"9", "0", "1", "9", "9", "1">>
    /\ decOut = [position |-> "Bottom", tool_type |-> "Straight",
                  profile_id |-> 199, set_number |-> 1]

\* decode of six digits returns the value of digits 3-5 and of digit 6
DecodeKeepsValues ==
    (Decoded /\ SixChars(decIn) /\ AllDigits(decIn, 1, 6)) =>
        /\ decOut # None
        /\ validate_code(decIn)
        /\ decOut.profile_id = 100 * DigitVal(decIn[3]) + 10 * DigitVal(decIn[4])
                                  + DigitVal(decIn[5])
        /\ decOut.set_number = DigitVal(decIn[6])

\* every code generate returns is accepted by validate_code
GeneratedCodesValidate ==
    (Generated /\ genOut.ok) => validate_code(genOut.code)

\* C18: decode does not check ranges: for six digits it returns the value of
\* digits 3-5 (0 included) and of digit 6 (0 included), so validate_code
\* accepts codes generate never returns, and the codes validate_code accepts
\* contain the codes generate returns.
C18_DecodeNoRangeCheck == DecodeKeepsValues /\ GeneratedCodesValidate

ExampleArgs == [profile_id |-> 7, position |-> "Top", tool_type |-> "Profile", set_number |-> 3]

\* C19 as claimed: generate(7, "Top", "Profile", 3) returns "211003" and
\* decode("211003") returns {Top, Profile, 7, 3}.
C19_Example ==
    /\ (Generated /\ genArgs = ExampleArgs) =>
          (genOut.ok /\ genOut.code = <<"2", "1", "1", "0", "0", "3">>)
    /\ (Decoded /\ decIn = <<"2", "1", "1", "0", "0", "3">>) => decOut = ExampleArgs

\* C19 as amended: generate(7, "Top", "Profile", 3) returns "210073" and
\* decode("210073") returns {Top, Profile, 7, 3}.
C19_ExampleAmended ==
    /\ (Generated /\ genArgs = ExampleArgs) =>
          /\ genOut.ok
          /\ genOut.code = <<"2", "1", "0", "0", "7", "3">>
          /\ decOut # NotCalled => (decIn = genOut.code /\ decOut = ExampleArgs)
    /\ (Decoded /\ decIn = <<"2", "1", "0", "0", "7", "3">>) => decOut = ExampleArgs

\* the example was generated and its code decoded
C19_Witness ==
    /\ genArgs = ExampleArgs
    /\ genOut # NotCalled
    /\ decIn = <<"2", "1", "0", "0", "7", "3">>
    /\ decOut = ExampleArgs

BothReturned ==
    /\ genOut # NotCalled
    /\ genOut2 # NotCalled
    /\ genOut.ok
    /\ genOut2.ok

\* C20: for two argument tuples generate accepts, the codes are equal exactly
\* when the tuples are equal.
C20_CodesInjective ==
    BothReturned => ((genOut.code = genOut2.code) <=> (genArgs = genArgs2))

\* two tools that differ in the set number only got different codes
C20_Witness ==
    /\ BothReturned
    /\ genArgs.set_number # genArgs2.set_number
    /\ [genArgs EXCEPT !.set_number = genArgs2.set_number] = genArgs2
    /\ genOut.code # genOut2.code

\* a step of a successful delete_tool call removes the row of its tool and
\* nothing else
C21_Step ==
    (last'.op = "delete_tool" /\ last'.raised = "" /\ last'.result) =>
        /\ last'.deleted # {}
        /\ last'.deleted \subseteq tools
        /\ tools' = tools \ last'.deleted
        /\ \A d \in last'.deleted : d.ID = last'.tool_id

\* C21: a successful delete_tool removes exactly its tool and leaves the
\* photo and every other field of every remaining tool as it was, also when
\* the tool was the first of its set.
C21_DeletionFrame == [][C21_Step]_vars

\* the first tool of a set was deleted and a later member with a photo is
\* still stored
C21_Witness ==
    /\ last.op = "delete_tool"
    /\ last.result
    /\ \E d \in last.deleted : \E t \in SetOf(tools, d.Auto_Generated_Code) :
          /\ d.ID < t.ID
          /\ t.Photo = "P1"
          /\ d.Photo # t.Photo

\* the rows that bind a tool to a head other than (profile_id, head_number)
BoundElsewhere(A, tool_id, profile_id, head_number) ==
    {a \in A : a.Tool_ID = tool_id
                /\ ~(a.Profile_ID = profile_id /\ a.Head_Number = head_number)}

\* a step of assign_tool_to_head(p, h2, T) for an existing profile, a head in
\* 1..10 and a tool bound to another head succeeds, keeps the other rows of T
\* and adds the row of (p, h2)
C22_Step ==
    (/\ last'.op = "assign_tool_to_head"
     /\ last'.raised = ""
     /\ last'.profile_id \in profiles
     /\ last'.head_number \in 1..10
     /\ BoundElsewhere(assignments, last'.tool_id, last'.profile_id,
                       last'.head_number) # {}) =>
        /\ last'.result
        /\ BoundElsewhere(assignments, last'.tool_id, last'.profile_id, last'.head_number)
              \subseteq assignments'
        /\ \E a \in OnHead(assignments', last'.profile_id, last'.head_number) :
              a.Tool_ID = last'.tool_id

\* C22: assign_tool_to_head(p, h2, T) succeeds when T is already assigned to
\* another head h1, of the same or of another profile, and afterwards both
\* assignments exist and reference T.
C22_SeveralHeads == [][C22_Step]_vars

\* one tool is assigned to three heads, the last call having assigned it
\* while a head of the same profile and a head of another profile had it
C22_Witness ==
    /\ last.op = "assign_tool_to_head"
    /\ last.result
    /\ \E a \in assignments : /\ a.Tool_ID = last.tool_id
                                /\ a.Profile_ID = last.profile_id
                                /\ a.Head_Number # last.head_number
    /\ \E a \in assignments : /\ a.Tool_ID = last.tool_id
                                /\ a.Profile_ID # last.profile_id
    /\ \E a \in OnHead(assignments, last.profile_id, last.head_number) :
          a.Tool_ID = last.tool_id

ClaimedHeadTable ==
    (1 :> "Bottom" @@ 2 :> "Top" @@ 3 :> "Right" @@ 4 :> "Left" @@ 5 :> "Right" @@
     6 :> "Left" @@ 7 :> "Top" @@ 8 :> "Bottom" @@ 9 :> "Top" @@ 10 :> "Bottom")

\* assign_tool_to_head for an existing profile, an existing tool and a head in
\* 1..10 records the assignment whatever the position of the tool
C23_Step ==
    (/\ last'.op = "assign_tool_to_head"
     /\ last'.raised = ""
     /\ last'.profile_id \in profiles
     /\ last'.head_number \in 1..10
     /\ ToolById(last'.tool_id) # {}) =>
        /\ last'.result
        /\ \E a \in OnHead(assignments', last'.profile_id, last'.head_number) :
              a.Tool_ID = last'.tool_id

\* the row of a recorded assignment is tagged warning exactly when the
\* position of its tool differs from the table entry of its head
C23_Flag ==
    \A a \in assignments : \A t \in ToolById(a.Tool_ID) :
        (load_profile_tools(a.Profile_ID)[a.Head_Number] = "warning")
            <=> (t.Position # ClaimedHeadTable[a.Head_Number])

\* C23: a position mismatch does not block assign_tool_to_head: any existing
\* tool is recorded on any head 1..10, and a recorded assignment is flagged
\* as a warning exactly when the position of the tool differs from the table
\* entry of its head.
C23_MismatchAdvisory == [][C23_Step /\ C23_Flag']_vars

\* a Bottom tool was assigned to head 2, which requires Top, and is flagged
C23_Witness ==
    /\ last.op = "assign_tool_to_head"
    /\ last.result
    /\ last.head_number = 2
    /\ \E t \in ToolById(last.tool_id) : t.Position = "Bottom"
    /\ load_profile_tools(last.profile_id)[2] = "warning"

\* C24: get_required_position_for_head(h) returns the entry of the fixed
\* table for every h in 1..10, whatever is stored, and no position for a
\* head number outside 1..10.
C24_RequiredPosition ==
    last.op = "get_required_position_for_head" =>
        /\ last.head_number \in 1..10 => last.position = ClaimedHeadTable[last.head_number]
        /\ last.head_number \notin 1..10 => last.position = NULL

\* head 5 was asked while an assignment is stored
C24_Witness ==
    /\ last.op = "get_required_position_for_head"
    /\ last.head_number = 5
    /\ last.position = "Right"
    /\ assignments # {}

\* a step of assign_tool_to_head with a head number outside 1..10 returns
\* False, notifies nobody and changes no assignment
C25_Step ==
    (/\ last'.op = "assign_tool_to_head"
     /\ last'.raised = ""
     /\ last'.head_number \notin 1..10) =>
        /\ ~last'.result
        /\ last'.event = NoEvent
        /\ assignments' = assignments

C25_HeadsInRange == \A a \in assignments : a.Head_Number \in 1..10

\* C25: assign_tool_to_head with a head number outside 1..10 returns False,
\* creates no row, sends no notification and leaves the assignments as they
\* were; every stored assignment has a head number in 1..10.
C25_HeadRangeRejected == [][C25_Step /\ C25_HeadsInRange']_vars

\* head 11 was refused for an existing tool of an existing profile while
\* another assignment is stored
C25_Witness ==
    /\ last.op = "assign_tool_to_head"
    /\ last.raised = ""
    /\ last.head_number = 11
    /\ ~last.result
    /\ last.profile_id \in profiles
    /\ ToolById(last.tool_id) # {}
    /\ assignments # {}

\* the identity decode reads from the code of a stored tool
StoredIdentity(t) ==
    [position   |-> t.Position,
     tool_type  |-> t.Tool_Type,
     profile_id |-> t.Profile_ID,
     set_number |-> t.Set_Number]

C26_CodesDecode ==
    \A t \in tools :
        /\ validate_code(t.Auto_Generated_Code)
        /\ decode(t.Auto_Generated_Code) = StoredIdentity(t)

\* an update_tool step for which generate raises changes no tool
C26_Step ==
    (/\ last'.op = "update_tool"
     /\ last'.original # {}
     /\ GeneratedCode(last'.tool) = <<>>) => tools' = tools

\* C26: the code of every stored tool passes validate_code and decodes to the
\* stored position, tool type, profile id and set number, whatever
\* create_tool and update_tool calls were made; an update for which generate
\* raises leaves the record unchanged.
C26_CodeMatchesIdentity == [][C26_Step /\ C26_CodesDecode']_vars


MutatingOps == {"create_tool", "update_tool", "delete_tool", "assign_tool_to_head",
                "clear_head_assignment"}

\* a call of a mutating method of ToolService: the mode consulted is the one
\* before the call
C27_Gate ==
    last'.op \in MutatingOps =>
        IF read_only
        THEN /\ last'.raised = PermissionError
             /\ last'.event = NoEvent
             /\ tools' = tools
             /\ assignments' = assignments
             /\ nextToolId' = nextToolId
             /\ nextAssignId' = nextAssignId
        ELSE last'.raised # PermissionError

\* the mode after each call of SecurityManager
C27_Mode ==
    /\ last'.op = "toggle_security_mode" => read_only' = ~read_only
    /\ last'.op = "set_full_access" => read_only' = FALSE
    /\ last'.op = "set_read_only" => read_only' = TRUE
    /\ last'.op \in MutatingOps => read_only' = read_only

\* C27: in read-only mode create_tool, update_tool, delete_tool,
\* assign_tool_to_head and clear_head_assignment raise PermissionError, leave
\* tools and assignments unchanged and notify nobody; the mode consulted is
\* the one the last toggle_security_mode, set_full_access or set_read_only
\* left, and in full access no call raises PermissionError
C27_ReadOnlyGate == [][C27_Gate /\ C27_Mode]_vars

\* a store filled in full access, then switched to read-only, where clearing
\* an assigned head was refused
C27_Witness ==
    /\ read_only
    /\ last.op = "clear_head_assignment"
    /\ last.raised = PermissionError
    /\ \E a \in assignments :
          a.Profile_ID = last.profile_id /\ a.Head_Number = last.head_number

\* a step that completes a delete_tool call in full access on a tool that
\* some head refers to
C28_Refused ==
    (/\ last'.op = "delete_tool"
     /\ last' # last
     /\ ~read_only
     /\ \E a \in assignments : a.Tool_ID = last'.tool_id) =>
        /\ last'.raised = ""
        /\ ~last'.result
        /\ last'.event = NoEvent
        /\ tools' = tools
        /\ assignments' = assignments

\* C28: delete_tool on a tool that at least one assignment refers to returns
\* False without raising, changes no tool and no assignment and sends no
\* tool_deleted notification; no step of delete_tool removes an assignment
C28_AssignedToolKept ==
    [][C28_Refused /\ (last'.op = "delete_tool" => assignments' = assignments)]_vars

\* every reference of a stored row leads to a stored row
C29_References ==
    /\ \A t \in tools : t.Profile_ID \in profiles
    /\ \A a \in assignments :
          /\ a.Profile_ID \in profiles
          /\ \E t \in tools : t.ID = a.Tool_ID

\* a delete_profile call that found its profile removes the profile, its
\* tools and the assignments of the profile or of one of those tools, and
\* nothing else
C29_Cascade ==
    (last'.op = "delete_profile" /\ last'.raised = "" /\ last'.result) =>
        LET p    == last'.profile_id
            gone == {t \in tools : t.Profile_ID = p}
        IN  /\ p \in profiles
            /\ profiles' = profiles \ {p}
            /\ tools' = tools \ gone
            /\ assignments' = {a \in assignments :
                   a.Profile_ID # p /\ \A t \in gone : a.Tool_ID # t.ID}

\* a create_tool call in full access for a profile that is not stored
C29_NoOrphanTool ==
    (/\ last'.op = "create_tool"
     /\ ~read_only
     /\ last'.tool.profile_id \notin profiles) =>
        /\ last'.raised = "ValueError"
        /\ tools' = tools
        /\ nextToolId' = nextToolId

\* C29: every assignment refers to a stored tool and a stored profile and
\* every tool to a stored profile, in every reachable state; delete_profile
\* removes the tools of the profile and every assignment of the profile or of
\* one of those tools; create_tool for a profile that does not exist is
\* rejected and inserts nothing
C29_ReferentialIntegrity ==
    [][C29_References' /\ C29_Cascade /\ C29_NoOrphanTool]_vars

\* a profile was deleted while a head of another profile carried one of its
\* tools: the profile, the tool and that assignment are gone and the other
\* profile is still stored
C29_Witness ==
    /\ last.op = "delete_profile"
    /\ last.result
    /\ \E a \in last.removed :
          /\ a.Profile_ID # last.profile_id
          /\ a.Profile_ID \in profiles
    /\ C29_References

\* the INSERT of a create_tool call that passed its check: when the code was
\* stored in between, ValueError and no insert; otherwise, for a stored
\* profile, one new row with the code
C30_Insert ==
    \A c \in Callers :
        (creating[c].pc = "selected" /\ creating'[c] # creating[c]) =>
            LET call == creating[c].call
                done == creating'[c].call
            IN  IF ToolByCode(call.code) # {}
                THEN /\ creating'[c].pc = "raised"
                     /\ done.raised = "ValueError"
                     /\ done.event = NoEvent
                     /\ tools' = tools
                     /\ nextToolId' = nextToolId
                ELSE call.tool.profile_id \in profiles =>
                     /\ creating'[c].pc = "returned"
                     /\ done.raised = ""
                     /\ done.tool_id = nextToolId
                     /\ tools \subseteq tools'
                     /\ Cardinality(tools') = Cardinality(tools) + 1
                     /\ \E t \in tools' \ tools :
                           t.ID = nextToolId /\ t.Auto_Generated_Code = call.code

\* no two stored tools have the same code
C30_NoDuplicate ==
    \A t1 \in tools, t2 \in tools :
        t1.Auto_Generated_Code = t2.Auto_Generated_Code => t1 = t2

\* of two calls for the same code that are at or past the insert, at most one
\* returned; the one that lost the race raised ValueError and exactly one
\* tool with the code is stored
C30_OneWinner ==
    \A c \in Callers : \A d \in Callers \ {c} :
        /\ (/\ creating[c].pc = "returned"
            /\ creating[d].pc \in {"checked", "selected", "returned", "raised"}
            /\ creating[d].call.code = creating[c].call.code) =>
               creating[d].pc # "returned"
        /\ (/\ creating[c].pc = "raised"
            /\ creating[c].call.error = "An error occurred while creating the tool.") =>
               /\ creating[c].call.raised = "ValueError"
               /\ Cardinality(ToolByCode(creating[c].call.code)) = 1

\* C30: when two create_tool calls for the same identity both pass the
\* existence check before either inserts, one insert succeeds, the other
\* call raises ValueError, and two tools with the same code are never stored
C30_ConcurrentCreate ==
    [][C30_Insert /\ C30_NoDuplicate' /\ C30_OneWinner']_vars

\* both callers passed the check for the same code; one returned the new
\* tool, the other raised ValueError at its insert
C30_Witness ==
    \E c \in Callers : \E d \in Callers \ {c} :
        /\ creating[c].pc = "returned"
        /\ creating[d].pc = "raised"
        /\ creating[d].call.raised = "ValueError"
        /\ creating[d].call.error = "An error occurred while creating the tool."
        /\ creating[d].call.code = creating[c].call.code
        /\ creating[d].call.tool = creating[c].call.tool
        /\ Cardinality(ToolByCode(creating[c].call.code)) = 1
====
